---------------------------- MODULE Spec2Model ----------------------------
(***************************************************************************)
(* A model of the ELL graph compiler core:                                 *)
(*   - the lowering of BinaryReceptiveFieldMatrixNode and BinaryXnorNode   *)
(*     (task splitting, the emitted StartTasks / WaitAll region and the    *)
(*     sequential fallback loop), together with a run of the emitted code; *)
(*   - the reference bookkeeping of InputPortBase;                         *)
(*   - TransformContext::GetNodeAction.                                    *)
(***************************************************************************)
EXTENDS Integers, Sequences, FiniteSets, TLC

VARIABLES
    \* ---- lowering of a node and a run of the emitted code ----
    cfg,        \* the node's parameters and the compiler options
    pc,         \* "init" | "emitted" | "trapped" | "returned"
    taskSize,   \* Compile's local taskSize
    numTasks,   \* Compile's local numTasks
    program,    \* the instructions Compile emitted into the caller's function
    ip,         \* index in program of the caller's next instruction
    tasks,      \* the started tasks, each the frame of one call of the task function
    loop,       \* the frame of the caller's sequential For loop
    scratch,    \* per frame (0: the caller, k: task k), its scratch variable
    output,     \* the node's output buffer
    writes,     \* every store so far: <<location, writer>>
    runs,       \* per work index, how many times its loop body has run to its end
    \* ---- input ports and the outputs they reference ----
    life,           \* per input port: "unborn" | "alive" | "destroyed"
    portType,       \* per input port, Port::_type
    referencedPort, \* per input port, InputPortBase::_referencedPort (NullPort: nullptr)
    references,     \* per output port, the input ports in its reference set
    crashed,        \* the process died on a null dereference
    last,           \* the last port operation: what was called and how it ended
    \* ---- TransformContext ----
    nodeActionFunctions, \* TransformContext::_nodeActionFunctions, in registration order
    compilableNodes,     \* the nodes that are compilable under the context's compiler
    lastAction,          \* the last GetNodeAction call: the node and the action returned
    \* ---- calls of the interpreted and archive methods of the IR-only nodes ----
    lastNodeCall,
    \* ---- Port::Serialize / Port::Deserialize ----
    portObjects,
    archive,
    lastPortCall,
    \* ---- ModelTransformer: a RefineModel or CopySubmodelOnto run ----
    transformPhase,
    originalModel,
    currentModel,
    transformedModel,
    elementsMap,
    previousElementMap,
    visitNext,
    iteration,
    maxIterations,
    transformFunctions,
    isModelCompilable,
    didRefineAny,
    decisions,
    passLog,
    query,
    \* ---- ModelTransformer: the arguments of a CopySubmodelOnto call ----
    submodel,
    onto,
    destModel,
    isInPlace,
    \* ---- Model: the nodes of a model whose input ports are rebound by hand ----
    graph,
    \* ---- IRHeaderWriter: a module header being written ----
    headerPhase,
    moduleFunctions,
    nextFunction,
    headerFunctions,
    \* ---- HuberLoss: a ConjugateProx call and the objective compared with it ----
    lossPhase,
    lossArgs,
    conjugateProx,
    conjugateProxValue,
    comparison

compileVars == <<cfg, pc, taskSize, numTasks, program, ip, tasks, loop, scratch, output, writes, runs>>
portVars == <<life, portType, referencedPort, references, crashed, last>>
contextVars == <<nodeActionFunctions, compilableNodes, lastAction>>
nodeCallVars == <<lastNodeCall>>
serializeVars == <<portObjects, archive, lastPortCall>>
transformVars == <<transformPhase, originalModel, currentModel, transformedModel, elementsMap, previousElementMap, visitNext, iteration, maxIterations, transformFunctions, isModelCompilable, didRefineAny, decisions, passLog, query>>
copyVars == <<submodel, onto, destModel, isInPlace>>
graphVars == <<graph>>
headerVars == <<headerPhase, moduleFunctions, nextFunction, headerFunctions>>
lossVars == <<lossPhase, lossArgs, conjugateProx, conjugateProxValue, comparison>>
vars == <<compileVars, portVars, contextVars, nodeCallVars, serializeVars, transformVars, copyVars, graphVars, headerVars, lossVars>>

\* What an action of one part of the model leaves alone.
outsideCompile == <<portVars, contextVars, nodeCallVars, serializeVars, transformVars, copyVars, graphVars, headerVars, lossVars>>
outsidePorts == <<compileVars, contextVars, nodeCallVars, serializeVars, transformVars, copyVars, graphVars, headerVars, lossVars>>
outsideContext == <<compileVars, portVars, nodeCallVars, serializeVars, transformVars, copyVars, graphVars, headerVars, lossVars>>
outsideNodeCalls == <<compileVars, portVars, contextVars, serializeVars, transformVars, copyVars, graphVars, headerVars, lossVars>>
outsideSerialize == <<compileVars, portVars, contextVars, nodeCallVars, transformVars, copyVars, graphVars, headerVars, lossVars>>
outsideTransform == <<compileVars, portVars, contextVars, nodeCallVars, serializeVars, copyVars, graphVars, headerVars, lossVars>>
outsideCopy == <<compileVars, portVars, contextVars, nodeCallVars, serializeVars, transformVars, graphVars, headerVars, lossVars>>
outsideGraph == <<compileVars, portVars, contextVars, nodeCallVars, serializeVars, transformVars, copyVars, headerVars, lossVars>>
outsideHeader == <<compileVars, portVars, contextVars, nodeCallVars, serializeVars, transformVars, copyVars, graphVars, lossVars>>
outsideLoss == <<compileVars, portVars, contextVars, nodeCallVars, serializeVars, transformVars, copyVars, graphVars, headerVars>>

(***************************************************************************)
(* Bounds of the model.                                                    *)
(***************************************************************************)
MaxHeight == 2
MaxWidth == 3
MaxFilters == 4
MaxThreads == 3
NumInputPorts == 2
NumOutputPorts == 3
MaxActionFunctions == 3

\* No GetNodeAction call was made yet.
NoAction == [node |-> "none", functions |-> <<>>, action |-> "none"]

\* No interpreted or archive method was called yet.
NoNodeCall == [method |-> "none", outcome |-> "none"]

\* Port objects, the record in the archive and the last Serialize or
\* Deserialize call, before any port exists.
NoPortObjects == <<>>
NoRecord == [written |-> FALSE]
NoPortCall == [op |-> "none"]

\* No correspondence query was made yet.
NoQuery == [port |-> 0, result |-> "none", visited |-> FALSE]

\* No submodel is being copied.
NoSubmodel == [inputs |-> <<>>, outputs |-> <<>>]

\* A model without nodes.
NoGraph == [inputs |-> <<>>, references |-> <<>>, kinds |-> <<>>]

(***************************************************************************)
(* Integer helpers.                                                        *)
(***************************************************************************)
Abs(x) == IF x < 0 THEN -x ELSE x

\* C++ integer division truncates toward zero (b # 0).
CDiv(a, b) ==
    LET q == Abs(a) \div Abs(b)
    IN  IF (a < 0) = (b < 0) THEN q ELSE -q

Min(a, b) == IF a < b THEN a ELSE b

\* int CeilDiv(int a, int b) { return (a - 1) / b + 1; }
CeilDiv(a, b) == CDiv(a - 1, b) + 1

\* The quotients a build can deliver for a signed division by zero that does
\* not trap (AArch64 sdiv yields 0).
DivByZeroQuotients == {0}

\* What a call CeilDiv(a, b) can do: b = 0 is undefined behaviour, which
\* either traps (x86 idiv raises SIGFPE) or delivers some quotient.
CeilDivOutcomes(a, b) ==
    IF b = 0
    THEN {[trap |-> TRUE, value |-> 0]}
         \cup {[trap |-> FALSE, value |-> q + 1] : q \in DivByZeroQuotients}
    ELSE {[trap |-> FALSE, value |-> CeilDiv(a, b)]}


(***************************************************************************)
(* The node's parameters and the compiler options.                         *)
(***************************************************************************)
ReceptiveFieldKind == "BinaryReceptiveFieldMatrixNode"
XnorKind == "BinaryXnorNode"

\* (receptiveField, inputDepth) pairs: field volumes 1, 36, 64 and 72.
FieldShapes == {<<1, 1>>, <<3, 4>>, <<1, 64>>, <<3, 8>>}

\* 8 * sizeof(PackedBitsType) for the two instantiations, int32_t and int64_t.
PackedBitWidths == {32, 64}

ReceptiveFieldConfigs ==
    { [kind |-> ReceptiveFieldKind, bits |-> b,
       receptiveField |-> fs[1], inputDepth |-> fs[2], stride |-> 1,
       outputImageHeight |-> h, outputImageWidth |-> w, numFilters |-> 1,
       maxThreads |-> d, parallelize |-> par,
       allowVectorInstructions |-> FALSE, vectorWidth |-> 1,
       hasZeroPadding |-> FALSE, scaleByFilterMeans |-> FALSE, seed |-> 0] :
      b \in PackedBitWidths, fs \in FieldShapes,
      h \in 0..MaxHeight, w \in 0..MaxWidth, d \in 1..MaxThreads, par \in BOOLEAN }

XnorConfigs ==
    { [kind |-> XnorKind, bits |-> b,
       receptiveField |-> fs[1], inputDepth |-> fs[2], stride |-> 1,
       outputImageHeight |-> 1, outputImageWidth |-> w, numFilters |-> f,
       maxThreads |-> d, parallelize |-> par,
       allowVectorInstructions |-> vec, vectorWidth |-> 2,
       hasZeroPadding |-> pad, scaleByFilterMeans |-> pad, seed |-> 1] :
      b \in PackedBitWidths, fs \in FieldShapes,
      w \in 1..2, f \in 0..MaxFilters, d \in 1..MaxThreads, par \in BOOLEAN,
      vec \in BOOLEAN, pad \in BOOLEAN }

Configs == ReceptiveFieldConfigs \cup XnorConfigs

\* fieldVolumeSize = filterWidth * filterWidth * inputDepth
FieldVolumeSize(c) == c.receptiveField * c.receptiveField * c.inputDepth

\* packedRowSize = (fieldVolumeSize - 1) / numBits + 1
PackedRowSize(c) == CDiv(FieldVolumeSize(c) - 1, c.bits) + 1

\* numOutputRows = outputImageWidth * outputImageHeight
NumOutputRows(c) == c.outputImageWidth * c.outputImageHeight

\* outputColumns = outputSize[0] * outputSize[1]
OutputColumns(c) == c.outputImageHeight * c.outputImageWidth

\* The stride counted in 64-bit blocks, not in words of PackedBitsType.
PackedRowStrideIn64BitBlocks(c) == CDiv(FieldVolumeSize(c) - 1, 64) + 1

\* packedRowStride = numStrideBlocks * (rowStrideElementSize / elementSize)
PackedRowStride(c) ==
    (CDiv(FieldVolumeSize(c) - 1, 64) + 1) * CDiv(8, CDiv(c.bits, 8))

\* numVectorBlocks = useVectorInstructions ? packedRowSize / vectorSize : 0
NumVectorBlocks(c) ==
    IF c.allowVectorInstructions THEN CDiv(PackedRowSize(c), c.vectorWidth) ELSE 0

\* The total work of the node: what Compile splits into tasks.
WorkSize(c) == IF c.kind = ReceptiveFieldKind THEN NumOutputRows(c) ELSE c.numFilters

\* The output size counted in 64-bit words whatever PackedBitsType is.
GetPackedFilterSizeIn64BitWords(c) ==
    (CDiv(FieldVolumeSize(c) - 1, 64) + 1) * (c.outputImageHeight * c.outputImageWidth)

\* GetPackedFilterSize: the size of BinaryReceptiveFieldMatrixNode's output.
GetPackedFilterSize(c) ==
    (CDiv(FieldVolumeSize(c) - 1, c.bits) + 1) * (c.outputImageHeight * c.outputImageWidth)

\* The size of the output port the node was constructed with.
OutputSize(c) ==
    IF c.kind = ReceptiveFieldKind
    THEN GetPackedFilterSize(c)
    ELSE c.outputImageHeight * c.outputImageWidth * c.numFilters

(***************************************************************************)
(* The data the emitted code reads.  A packed word is the set of its bit   *)
(* positions that hold 1.                                                  *)
(***************************************************************************)
\* The input image, a value in {-1, 0, 1} per (row, column, channel).
InputValue(c, r, col, ch) == ((c.seed + 2 * r + 3 * col + 5 * ch) % 3) - 1

\* The packed input of BinaryXnorNode (the receptive field matrix).
XnorInputBlock(c, idx) == { k \in 0..(c.bits - 1) : (c.seed + idx + k) % 3 = 0 }

\* The packed filter weights.
FilterWeightsBlock(c, idx) == { k \in 0..(c.bits - 1) : (idx + 2 * k) % 5 < 2 }

\* The packed input padding masks.
PaddingMaskBlock(c, idx) == { k \in 0..(c.bits - 1) : (idx + k) % 4 # 0 }

\* The input padding mask sums and the filter means.
PaddingMaskSum(c, col) == col + 1
FilterMean(c, f) == f + 2

\* A buffer element: nothing stored into it yet, or the value stored last.
Uninitialized(c) == [init |-> FALSE, val |-> IF c.kind = ReceptiveFieldKind THEN {} ELSE 0]
Stored(v) == [init |-> TRUE, val |-> v]

(***************************************************************************)
(* The loop bodies the nodes emit.  A body is split the way the emitted    *)
(* code runs it: a first half that fills a scratch variable of the running *)
(* function's frame, and a second half that reads the scratch variable and *)
(* stores into the output buffer.  A store is a pair <<index, value>>.     *)
(***************************************************************************)
\* LoadRow: the receptive field of output row outputRowIndex, copied into
\* realValueRow in (row, column, channel) order.
LoadRow(c, outputRowIndex) ==
    LET numChannels == c.inputDepth
        filterSize == c.receptiveField
        outputImageRow == CDiv(outputRowIndex, c.outputImageWidth)
        outputImageCol == outputRowIndex % c.outputImageWidth
        inputRowStart == outputImageRow * c.stride
        inputColStart == outputImageCol * c.stride
    IN  [ k \in 0..(filterSize * filterSize * numChannels - 1) |->
            LET rowIndex == k \div (filterSize * numChannels)
                columnIndex == (k \div numChannels) % filterSize
                channelIndex == k % numChannels
            IN  InputValue(c, inputRowStart + rowIndex, inputColStart + columnIndex, channelIndex) ]

\* CompressRow: the stores that pack realRow (numValues values) into words of
\* the given width, at offsets 0 .. numBlocks - 1 of packedOutput.
CompressRow(realRow, numValues, storedElementNumBits) ==
    LET numBlocks == CDiv(numValues - 1, storedElementNumBits) + 1
        numCompleteBlocks == CDiv(numValues, storedElementNumBits)
        leftoverBits == numValues % storedElementNumBits
        complete == { <<blockIndex,
                        { bitIndex \in 0..(storedElementNumBits - 1) :
                            realRow[blockIndex * storedElementNumBits + bitIndex] > 0 }>> :
                      blockIndex \in 0..(numCompleteBlocks - 1) }
        partial == IF numBlocks > numCompleteBlocks
                   THEN { <<numCompleteBlocks,
                            { bitIndex \in 0..(leftoverBits - 1) :
                                realRow[numCompleteBlocks * storedElementNumBits + bitIndex] > 0 }>> }
                   ELSE {}
    IN  complete \cup partial

\* A task body that lost the row offset of the sequential body.
ReceptiveFieldTaskStoresNoOffset(c, outputRowIndex, realValueRow) ==
    CompressRow(realValueRow, FieldVolumeSize(c), c.bits)

\* The stores of one iteration of the task function's loop (GetTaskFunction):
\* outputRow = pOutput + outputRowIndex * packedRowSize, then CompressRow.
ReceptiveFieldTaskStores(c, outputRowIndex, realValueRow) ==
    { <<outputRowIndex * PackedRowSize(c) + st[1], st[2]>> :
        st \in CompressRow(realValueRow, FieldVolumeSize(c), c.bits) }

\* The stores of one iteration of the sequential loop (Compile, else branch).
ReceptiveFieldLoopStores(c, outputRowIndex, realValueRow) ==
    { <<outputRowIndex * PackedRowSize(c) + st[1], st[2]>> :
        st \in CompressRow(realValueRow, FieldVolumeSize(c), c.bits) }

\* EmitInnerLoop for one block: popcount of the (masked) XOR of an input
\* word and a weight word.
XorCount(c, inputIdx, weightIdx, maskIdx) ==
    LET inputVal == XnorInputBlock(c, inputIdx)
        filterVal == FilterWeightsBlock(c, weightIdx)
        xorVal == (inputVal \ filterVal) \cup (filterVal \ inputVal)
    IN  IF c.hasZeroPadding
        THEN Cardinality(PaddingMaskBlock(c, maskIdx) \cap xorVal)
        ELSE Cardinality(xorVal)

\* The sum of term[k] for k in lo .. hi - 1.
SumOver(term, lo, hi) ==
    LET S[k \in (lo - 1)..(hi - 1)] == IF k < lo THEN 0 ELSE S[k - 1] + term[k]
    IN  S[hi - 1]

\* The xor sum of the vector loop alone, the remainder of the row left out.
XorSumWithoutRemainder(c, filterIndex, outputColumnIndex) ==
    LET packedRowSize == PackedRowSize(c)
        packedRowStride == PackedRowStride(c)
        numVectorBlocks == NumVectorBlocks(c)
        blockCount == [ b \in 0..(packedRowSize - 1) |->
                          XorCount(c, outputColumnIndex * packedRowSize + b,
                                   filterIndex * packedRowStride + b,
                                   outputColumnIndex * packedRowStride + b) ]
    IN  IF numVectorBlocks > 0
        THEN SumOver(blockCount, 0, numVectorBlocks * c.vectorWidth)
        ELSE SumOver(blockCount, 0, packedRowSize)

\* ComputeFilterOutput, first half: the xor sum of one (filter, column) pair,
\* a vector loop over numVectorBlocks vectors of vectorSize words and a scalar
\* loop over the remaining numScalarBlocks words.
XorSum(c, filterIndex, outputColumnIndex) ==
    LET packedRowSize == PackedRowSize(c)
        packedRowStride == PackedRowStride(c)
        vectorSize == c.vectorWidth
        numVectorBlocks == NumVectorBlocks(c)
        weightsBegin == filterIndex * packedRowStride
        inputBegin == outputColumnIndex * packedRowSize
        paddingBegin == outputColumnIndex * packedRowStride
        blockCount == [ b \in 0..(packedRowSize - 1) |->
                          XorCount(c, inputBegin + b, weightsBegin + b, paddingBegin + b) ]
        \* lane l of vector i is word i * vectorSize + l
        vectorXorSum == IF numVectorBlocks > 0
                        THEN SumOver(blockCount, 0, numVectorBlocks * vectorSize)
                        ELSE 0
        numScalarBlocks == packedRowSize - (vectorSize * numVectorBlocks)
        start == vectorSize * numVectorBlocks
        scalarSum == IF numScalarBlocks > 0
                     THEN SumOver(blockCount, start, start + numScalarBlocks)
                     ELSE 0
    IN  scalarSum + vectorXorSum

\* The store without the adjustment for a partial last block.
ComputeFilterOutputStoresUnadjusted(c, filterIndex, outputColumnIndex, xorSum) ==
    LET scaledSum == (-2 * xorSum) + (c.bits * PackedRowSize(c))
        scaledSumWithPadding == IF c.hasZeroPadding
                                THEN scaledSum - PaddingMaskSum(c, outputColumnIndex)
                                ELSE scaledSum
        outIndex == (filterIndex * OutputColumns(c)) + outputColumnIndex
    IN  IF c.scaleByFilterMeans
        THEN { <<outIndex, scaledSumWithPadding * FilterMean(c, filterIndex)>> }
        ELSE { <<outIndex, scaledSumWithPadding>> }

\* ComputeFilterOutput, second half: output scaling and the store at
\* outIndex = filterIndex * outputColumns + outputColumnIndex.
ComputeFilterOutputStores(c, filterIndex, outputColumnIndex, xorSum) ==
    LET numBits == c.bits
        partialBlockSize == FieldVolumeSize(c) % numBits
        scaledSum == (-2 * xorSum) + (numBits * PackedRowSize(c))
        scaledSumWithPadding == IF c.hasZeroPadding
                                THEN scaledSum - PaddingMaskSum(c, outputColumnIndex)
                                ELSE scaledSum
        adjustedSum == IF partialBlockSize # 0
                       THEN scaledSumWithPadding - (numBits - partialBlockSize)
                       ELSE scaledSumWithPadding
        outIndex == (filterIndex * OutputColumns(c)) + outputColumnIndex
    IN  IF c.scaleByFilterMeans
        THEN { <<outIndex, adjustedSum * FilterMean(c, filterIndex)>> }
        ELSE { <<outIndex, adjustedSum>> }

(***************************************************************************)
(* Compile: task splitting and the emitted instructions.                   *)
(***************************************************************************)
\* auto start = taskIndex * taskSize;
TaskStart(taskIndex, ts) == taskIndex * ts

\* A task range that runs one index into the next task's range.
TaskEndOverlapping(taskIndex, ts, n) == Min((taskIndex + 1) * ts + 1, n)

\* auto end = std::min((taskIndex + 1) * taskSize, numOutputRows);
TaskEnd(taskIndex, ts, n) == Min((taskIndex + 1) * ts, n)

\* One task more than numTasks, its range beginning at numTasks * taskSize.
TaskArgsWithExtraTask(nt, ts, n) ==
    [ k \in 1..(nt + 1) |-> <<TaskStart(k - 1, ts), TaskEnd(k - 1, ts, n)>> ]

\* for (int taskIndex = 0; taskIndex < numTasks; ++taskIndex) taskArgs.push_back(...)
TaskArgs(nt, ts, n) ==
    [ k \in 1..nt |-> <<TaskStart(k - 1, ts), TaskEnd(k - 1, ts, n)>> ]

\* Dispatching whenever parallelize is set, whatever the task count.
ShouldDispatchIgnoringCount(parallelize, nt) == parallelize

\* if (compilerSettings.parallelize && numTasks > 1)
ShouldDispatch(parallelize, nt) == parallelize /\ nt > 1

Instruction(op, args, count) == [op |-> op, args |-> args, count |-> count]

\* The parallel region without its join.
EmitParallelWithoutJoin(taskArgs) == << Instruction("StartTasks", taskArgs, 0) >>

\* auto tasks = function.StartTasks(taskFunction, taskArgs); tasks.WaitAll(function);
EmitParallel(taskArgs) ==
    << Instruction("StartTasks", taskArgs, 0), Instruction("WaitAll", <<>>, 0) >>

\* function.For(numOutputRows, ...) / function.For(numFilters, ...)
EmitSequential(n) == << Instruction("For", <<>>, n) >>

\* The instructions Compile emits once taskSize and numTasks are known.
CompileEmit(c, ts, nt) ==
    IF ShouldDispatch(c.parallelize, nt)
    THEN EmitParallel(TaskArgs(nt, ts, WorkSize(c)))
    ELSE EmitSequential(WorkSize(c))

\* A frame of the loop "for i in lo .. hi - 1" (and, in BinaryXnorNode, the
\* inner loop over the output columns, counter j).
NewFrame(c, lo, hi) ==
    [lo |-> lo, hi |-> hi,
     i |-> IF c.kind = XnorKind /\ OutputColumns(c) = 0 /\ lo < hi THEN hi ELSE lo,
     j |-> 0, phase |-> "load", done |-> FALSE]

\* The scratch variable of a frame before its first store: realValueRow
\* (BinaryReceptiveFieldMatrixNode) or xorSum (BinaryXnorNode).
FreshScratch(c) ==
    IF c.kind = ReceptiveFieldKind THEN [ k \in 0..(FieldVolumeSize(c) - 1) |-> 0 ] ELSE 0

CompileTrap ==
    /\ pc' = "trapped"
    /\ UNCHANGED <<cfg, taskSize, numTasks, program, ip, tasks, loop, scratch, output, writes, runs>>
    /\ UNCHANGED outsideCompile

CompileDone(ts, nt) ==
    /\ pc' = "emitted"
    /\ taskSize' = ts
    /\ numTasks' = nt
    /\ program' = CompileEmit(cfg, ts, nt)
    /\ ip' = 1
    /\ loop' = NewFrame(cfg, 0, IF program'[1].op = "For" THEN program'[1].count ELSE 0)
    /\ UNCHANGED <<cfg, tasks, scratch, output, writes, runs>>
    /\ UNCHANGED outsideCompile

\* const int taskSize = CeilDiv(N, numDesiredTasks);
\* const int numTasks = CeilDiv(N, taskSize);
\* then the parallel or the sequential branch.
CompileNode ==
    \E ts \in CeilDivOutcomes(WorkSize(cfg), cfg.maxThreads) :
        IF ts.trap
        THEN CompileTrap
        ELSE \E nt \in CeilDivOutcomes(WorkSize(cfg), ts.value) :
                IF nt.trap THEN CompileTrap ELSE CompileDone(ts.value, nt.value)

BinaryReceptiveFieldMatrixNodeCompile ==
    /\ pc = "init"
    /\ cfg.kind = ReceptiveFieldKind
    /\ CompileNode

BinaryXnorNodeCompile ==
    /\ pc = "init"
    /\ cfg.kind = XnorKind
    /\ CompileNode

(***************************************************************************)
(* A run of the emitted code: the caller executes program, the started     *)
(* tasks run the task function, one half of a loop body per step, in any   *)
(* interleaving.                                                           *)
(***************************************************************************)
\* The frame whose scratch variable task k's body uses: the task function
\* allocates it itself (taskFunction.Variable), so each call has its own.
ScratchFrame(k) == k

\* First half of a body: the value it leaves in the scratch variable.
LoadValue(c, fr) ==
    IF c.kind = ReceptiveFieldKind THEN LoadRow(c, fr.i) ELSE XorSum(c, fr.i, fr.j)

\* Second half of a body, in the task function and in the sequential loop.
TaskStores(c, fr, scr) ==
    IF c.kind = ReceptiveFieldKind
    THEN ReceptiveFieldTaskStores(c, fr.i, scr)
    ELSE ComputeFilterOutputStores(c, fr.i, fr.j, scr)

LoopStores(c, fr, scr) ==
    IF c.kind = ReceptiveFieldKind
    THEN ReceptiveFieldLoopStores(c, fr.i, scr)
    ELSE ComputeFilterOutputStores(c, fr.i, fr.j, scr)

\* The frame after a finished body: the next column, or the next index.
Advance(c, fr) ==
    IF c.kind = XnorKind /\ fr.j + 1 < OutputColumns(c)
    THEN [fr EXCEPT !.j = fr.j + 1, !.phase = "load"]
    ELSE [fr EXCEPT !.i = fr.i + 1, !.j = 0, !.phase = "load"]

\* The buffer after a set of stores (a store outside the buffer is not kept).
ApplyStores(buf, stores) ==
    [ idx \in DOMAIN buf |->
        IF \E st \in stores : st[1] = idx
        THEN Stored((CHOOSE st \in stores : st[1] = idx)[2])
        ELSE buf[idx] ]

\* The body of index before.i has run to its end when the frame moves on.
CountRun(r, before, after) ==
    IF after.i # before.i /\ before.i \in DOMAIN r
    THEN [r EXCEPT ![before.i] = @ + 1]
    ELSE r

OutputWrites(stores, writer) == { <<<<"output", st[1]>>, writer>> : st \in stores }

\* function.StartTasks(taskFunction, taskArgs): one task per argument list.
StartTasks ==
    /\ pc = "emitted"
    /\ ip <= Len(program)
    /\ program[ip].op = "StartTasks"
    /\ tasks' = [ k \in 1..Len(program[ip].args) |->
                    NewFrame(cfg, program[ip].args[k][1], program[ip].args[k][2]) ]
    /\ ip' = ip + 1
    /\ UNCHANGED <<cfg, pc, taskSize, numTasks, program, loop, scratch, output, writes, runs>>
    /\ UNCHANGED outsideCompile

\* Task k runs the first half of its loop body.
TaskLoad(k) ==
    /\ ~tasks[k].done
    /\ tasks[k].i < tasks[k].hi
    /\ tasks[k].phase = "load"
    /\ scratch' = [scratch EXCEPT ![ScratchFrame(k)] = LoadValue(cfg, tasks[k])]
    /\ writes' = writes \cup { <<<<"scratch", ScratchFrame(k)>>, k>> }
    /\ tasks' = [tasks EXCEPT ![k].phase = "store"]
    /\ UNCHANGED <<cfg, pc, taskSize, numTasks, program, ip, loop, output, runs>>
    /\ UNCHANGED outsideCompile

\* Task k runs the second half of its loop body.
TaskStore(k) ==
    /\ ~tasks[k].done
    /\ tasks[k].i < tasks[k].hi
    /\ tasks[k].phase = "store"
    /\ LET stores == TaskStores(cfg, tasks[k], scratch[ScratchFrame(k)])
       IN  /\ output' = ApplyStores(output, stores)
           /\ writes' = writes \cup OutputWrites(stores, k)
    /\ tasks' = [tasks EXCEPT ![k] = Advance(cfg, tasks[k])]
    /\ runs' = CountRun(runs, tasks[k], tasks'[k])
    /\ UNCHANGED <<cfg, pc, taskSize, numTasks, program, ip, loop, scratch>>
    /\ UNCHANGED outsideCompile

\* taskFunction.Return()
TaskReturn(k) ==
    /\ ~tasks[k].done
    /\ tasks[k].i >= tasks[k].hi
    /\ tasks' = [tasks EXCEPT ![k].done = TRUE]
    /\ UNCHANGED <<cfg, pc, taskSize, numTasks, program, ip, loop, scratch, output, writes, runs>>
    /\ UNCHANGED outsideCompile

\* tasks.WaitAll(function): the caller goes on once every task has returned.
WaitAll ==
    /\ pc = "emitted"
    /\ ip <= Len(program)
    /\ program[ip].op = "WaitAll"
    /\ \A k \in DOMAIN tasks : tasks[k].done
    /\ ip' = ip + 1
    /\ UNCHANGED <<cfg, pc, taskSize, numTasks, program, tasks, loop, scratch, output, writes, runs>>
    /\ UNCHANGED outsideCompile

\* The caller runs the first half of the sequential loop's body.
LoopLoad ==
    /\ pc = "emitted"
    /\ ip <= Len(program)
    /\ program[ip].op = "For"
    /\ loop.i < loop.hi
    /\ loop.phase = "load"
    /\ scratch' = [scratch EXCEPT ![0] = LoadValue(cfg, loop)]
    /\ writes' = writes \cup { <<<<"scratch", 0>>, 0>> }
    /\ loop' = [loop EXCEPT !.phase = "store"]
    /\ UNCHANGED <<cfg, pc, taskSize, numTasks, program, ip, tasks, output, runs>>
    /\ UNCHANGED outsideCompile

\* The caller runs the second half of the sequential loop's body.
LoopStore ==
    /\ pc = "emitted"
    /\ ip <= Len(program)
    /\ program[ip].op = "For"
    /\ loop.i < loop.hi
    /\ loop.phase = "store"
    /\ LET stores == LoopStores(cfg, loop, scratch[0])
       IN  /\ output' = ApplyStores(output, stores)
           /\ writes' = writes \cup OutputWrites(stores, 0)
    /\ loop' = Advance(cfg, loop)
    /\ runs' = CountRun(runs, loop, loop')
    /\ UNCHANGED <<cfg, pc, taskSize, numTasks, program, ip, tasks, scratch>>
    /\ UNCHANGED outsideCompile

\* The sequential loop ends.
LoopExit ==
    /\ pc = "emitted"
    /\ ip <= Len(program)
    /\ program[ip].op = "For"
    /\ loop.i >= loop.hi
    /\ ip' = ip + 1
    /\ UNCHANGED <<cfg, pc, taskSize, numTasks, program, tasks, loop, scratch, output, writes, runs>>
    /\ UNCHANGED outsideCompile

\* The caller is past the node's code: the node's output is read from here on.
ReturnToCaller ==
    /\ pc = "emitted"
    /\ ip > Len(program)
    /\ pc' = "returned"
    /\ UNCHANGED <<cfg, taskSize, numTasks, program, ip, tasks, loop, scratch, output, writes, runs>>
    /\ UNCHANGED outsideCompile

(***************************************************************************)
(* Input ports (InputPortBase) and the reference sets of output ports.     *)
(***************************************************************************)
InputPorts == 1..NumInputPorts
OutputPorts == 1..NumOutputPorts
NullPort == 0

PortTypes == {"real", "integer"}

\* The element type and the size of the output ports of the model: the last
\* output port is an integer port, the others are real.
OutputPortType(o) == IF o = NumOutputPorts THEN "integer" ELSE "real"
OutputPortSize(o) == o + 1

\* OutputPortBase::AddReference / RemoveReference / HasReference.
AddReference(refs, o, i) == [refs EXCEPT ![o] = @ \cup {i}]
RemoveReference(refs, o, i) == [refs EXCEPT ![o] = @ \ {i}]
HasReference(refs, o, i) == i \in refs[o]

\* What a dereference of a null _referencedPort can do.
NullDereferenceOutcomes == {"segfault", "garbage"}

\* The record of a call: the port, the argument, how the call ended, and the
\* references as they were when it was made.
Call(op, i, arg, outcome) ==
    [op |-> op, port |-> i, arg |-> arg, outcome |-> outcome,
     prevReferencedPort |-> referencedPort[i], prevReferences |-> references,
     prevType |-> portType[i]]

\* void InputPortBase::SetReferencedPort(const OutputPortBase* input)
SetReferencedPortEffect(refs, i, current, input) ==
    LET removed == IF current # NullPort THEN RemoveReference(refs, current, i) ELSE refs
    IN  IF input # NullPort THEN AddReference(removed, input, i) ELSE removed

\* InputPortBase::InputPortBase(owningNode, input, name): the port takes the
\* type of the output and binds to it.
Construct(i, o) ==
    /\ ~crashed
    /\ life[i] = "unborn"
    /\ life' = [life EXCEPT ![i] = "alive"]
    /\ portType' = [portType EXCEPT ![i] = OutputPortType(o)]
    /\ references' = SetReferencedPortEffect(references, i, NullPort, o)
    /\ referencedPort' = [referencedPort EXCEPT ![i] = o]
    /\ last' = Call("InputPortBase", i, o, "ok")
    /\ UNCHANGED crashed
    /\ UNCHANGED outsidePorts

\* InputPortBase::InputPortBase(Port::PortType portType): an unbound port.
ConstructUnbound(i, t) ==
    /\ ~crashed
    /\ life[i] = "unborn"
    /\ life' = [life EXCEPT ![i] = "alive"]
    /\ portType' = [portType EXCEPT ![i] = t]
    /\ last' = Call("InputPortBase", i, NullPort, "ok")
    /\ UNCHANGED <<referencedPort, references, crashed>>
    /\ UNCHANGED outsidePorts

SetReferencedPort(i, input) ==
    /\ ~crashed
    /\ life[i] = "alive"
    /\ references' = SetReferencedPortEffect(references, i, referencedPort[i], input)
    /\ referencedPort' = [referencedPort EXCEPT ![i] = input]
    /\ last' = Call("SetReferencedPort", i, input, "ok")
    /\ UNCHANGED <<life, portType, crashed>>
    /\ UNCHANGED outsidePorts

\* void InputPortBase::ClearReferencedPort() { _referencedPort = nullptr; }
ClearReferencedPort(i) ==
    /\ ~crashed
    /\ life[i] = "alive"
    /\ referencedPort' = [referencedPort EXCEPT ![i] = NullPort]
    /\ last' = Call("ClearReferencedPort", i, NullPort, "ok")
    /\ UNCHANGED <<life, portType, references, crashed>>
    /\ UNCHANGED outsidePorts

\* void InputPortBase::UpdateReferencedPort(): re-adds a missing reference;
\* on an unbound port it dereferences nullptr.
UpdateReferencedPort(i) ==
    /\ ~crashed
    /\ life[i] = "alive"
    /\ IF referencedPort[i] = NullPort
       THEN \E outcome \in NullDereferenceOutcomes :
               /\ crashed' = (outcome = "segfault")
               /\ last' = Call("UpdateReferencedPort", i, NullPort, outcome)
               /\ UNCHANGED references
       ELSE /\ references' = IF ~HasReference(references, referencedPort[i], i)
                             THEN AddReference(references, referencedPort[i], i)
                             ELSE references
            /\ last' = Call("UpdateReferencedPort", i, NullPort, "ok")
            /\ UNCHANGED crashed
    /\ UNCHANGED <<life, portType, referencedPort>>
    /\ UNCHANGED outsidePorts

\* InputPortBase::~InputPortBase()
Destroy(i) ==
    /\ ~crashed
    /\ life[i] = "alive"
    /\ references' = IF referencedPort[i] # NullPort
                     THEN RemoveReference(references, referencedPort[i], i)
                     ELSE references
    /\ life' = [life EXCEPT ![i] = "destroyed"]
    /\ last' = Call("~InputPortBase", i, NullPort, "ok")
    /\ UNCHANGED <<portType, referencedPort, crashed>>
    /\ UNCHANGED outsidePorts

\* bool InputPortBase::IsValid() const
IsValid(i) == referencedPort[i] # NullPort

\* const OutputPortBase& InputPortBase::GetReferencedPort() const
GetReferencedPort(i) ==
    /\ ~crashed
    /\ life[i] = "alive"
    /\ last' = Call("GetReferencedPort", i, NullPort,
                    IF ~IsValid(i) THEN "IllegalState" ELSE "ok")
    /\ UNCHANGED <<life, portType, referencedPort, references, crashed>>
    /\ UNCHANGED outsidePorts

\* PortElementBase InputPortBase::GetInputElement(size_t index) const
GetInputElement(i) ==
    /\ ~crashed
    /\ life[i] = "alive"
    /\ last' = Call("GetInputElement", i, NullPort,
                    IF ~IsValid(i) THEN "IllegalState" ELSE "ok")
    /\ UNCHANGED <<life, portType, referencedPort, references, crashed>>
    /\ UNCHANGED outsidePorts

\* PortMemoryLayout InputPortBase::GetMemoryLayout() const: no IsValid test,
\* _referencedPort is dereferenced as it is.
GetMemoryLayout(i) ==
    /\ ~crashed
    /\ life[i] = "alive"
    /\ IF referencedPort[i] = NullPort
       THEN \E outcome \in NullDereferenceOutcomes :
               /\ crashed' = (outcome = "segfault")
               /\ last' = Call("GetMemoryLayout", i, NullPort, outcome)
       ELSE /\ last' = Call("GetMemoryLayout", i, NullPort, "ok")
            /\ UNCHANGED crashed
    /\ UNCHANGED <<life, portType, referencedPort, references>>
    /\ UNCHANGED outsidePorts

\* size_t InputPortBase::Size() const: 0 for an unbound port.
Size(i) ==
    /\ ~crashed
    /\ life[i] = "alive"
    /\ last' = Call("Size", i,
                    IF ~IsValid(i) THEN 0 ELSE OutputPortSize(referencedPort[i]),
                    "ok")
    /\ UNCHANGED <<life, portType, referencedPort, references, crashed>>
    /\ UNCHANGED outsidePorts

NoCall ==
    [op |-> "none", port |-> 0, arg |-> NullPort, outcome |-> "ok",
     prevReferencedPort |-> NullPort, prevReferences |-> [o \in OutputPorts |-> {}],
     prevType |-> "real"]

InitPorts ==
    /\ cfg = CHOOSE c \in Configs : WorkSize(c) = 0 /\ c.maxThreads = 2
    /\ pc = "init"
    /\ taskSize = 0
    /\ numTasks = 0
    /\ program = <<>>
    /\ ip = 1
    /\ tasks = <<>>
    /\ loop = NewFrame(cfg, 0, 0)
    /\ scratch = <<>>
    /\ output = <<>>
    /\ writes = {}
    /\ runs = <<>>
    /\ life = [i \in InputPorts |-> "unborn"]
    /\ portType = [i \in InputPorts |-> "real"]
    /\ referencedPort = [i \in InputPorts |-> NullPort]
    /\ references = [o \in OutputPorts |-> {}]
    /\ crashed = FALSE
    /\ last = NoCall
    /\ nodeActionFunctions = <<>>
    /\ compilableNodes = {}
    /\ lastAction = NoAction
    /\ lastNodeCall = NoNodeCall
    /\ portObjects = NoPortObjects
    /\ archive = NoRecord
    /\ lastPortCall = NoPortCall
    /\ transformPhase = "idle"
    /\ originalModel = <<>>
    /\ currentModel = <<>>
    /\ transformedModel = <<>>
    /\ elementsMap = <<>>
    /\ previousElementMap = <<>>
    /\ visitNext = 1
    /\ iteration = 0
    /\ maxIterations = 1
    /\ transformFunctions = <<>>
    /\ isModelCompilable = FALSE
    /\ didRefineAny = FALSE
    /\ decisions = <<>>
    /\ passLog = <<>>
    /\ query = NoQuery
    /\ submodel = NoSubmodel
    /\ onto = <<>>
    /\ destModel = <<>>
    /\ isInPlace = FALSE
    /\ graph = NoGraph
    /\ headerPhase = "idle"
    /\ moduleFunctions = <<>>
    /\ nextFunction = 1
    /\ headerFunctions = <<>>
    /\ lossPhase = "idle"
    /\ lossArgs = <<>>
    /\ conjugateProx = <<>>
    /\ conjugateProxValue = <<>>
    /\ comparison = <<>>

NextPorts ==
    \/ \E i \in InputPorts, o \in OutputPorts : Construct(i, o)
    \/ \E i \in InputPorts, t \in PortTypes : ConstructUnbound(i, t)
    \/ \E i \in InputPorts, input \in OutputPorts \cup {NullPort} : SetReferencedPort(i, input)
    \/ \E i \in InputPorts : ClearReferencedPort(i)
    \/ \E i \in InputPorts : UpdateReferencedPort(i)
    \/ \E i \in InputPorts : Destroy(i)
    \/ \E i \in InputPorts : GetReferencedPort(i)
    \/ \E i \in InputPorts : GetInputElement(i)
    \/ \E i \in InputPorts : GetMemoryLayout(i)
    \/ \E i \in InputPorts : Size(i)

(***************************************************************************)
(* TransformContext: the node action functions and GetNodeAction.          *)
(***************************************************************************)
\* The nodes of the model being transformed.
Nodes == {"n1", "n2"}

\* enum class NodeAction { abstain, refine, compile }
NodeAction == {"abstain", "refine", "compile"}

\* using NodeActionFunction = std::function<NodeAction(const Node&)>
NodeActionFunctions == [Nodes -> NodeAction]

\* bool TransformContext::IsNodeCompilable(const Node& node) const
IsNodeCompilable(compilable, node) == node \in compilable

\* The first registered function that does not abstain decides.
GetNodeActionFirstWins(functions, compilable, node) ==
    LET deciding == { k \in 1..Len(functions) : functions[k][node] # "abstain" }
    IN  IF deciding # {}
        THEN functions[CHOOSE k \in deciding : \A m \in deciding : k <= m][node]
        ELSE IF IsNodeCompilable(compilable, node) THEN "compile" ELSE "refine"

\* NodeAction TransformContext::GetNodeAction(const Node& node) const: the
\* registered functions are asked from the last to the first, the first
\* answer other than abstain is returned; without one, the default.
GetNodeAction(functions, compilable, node) ==
    LET Ask[k \in 0..Len(functions)] ==
            IF k = 0
            THEN IF IsNodeCompilable(compilable, node) THEN "compile" ELSE "refine"
            ELSE IF functions[k][node] # "abstain" THEN functions[k][node] ELSE Ask[k - 1]
    IN  Ask[Len(functions)]

\* void TransformContext::AddNodeActionFunction(const NodeActionFunction&)
AddNodeActionFunction(f) ==
    /\ Len(nodeActionFunctions) < MaxActionFunctions
    /\ nodeActionFunctions' = Append(nodeActionFunctions, f)
    /\ UNCHANGED <<compilableNodes, lastAction>>
    /\ UNCHANGED outsideContext

\* A call of GetNodeAction(node).
CallGetNodeAction(node) ==
    /\ lastAction' = [node |-> node,
                      functions |-> nodeActionFunctions,
                      action |-> GetNodeAction(nodeActionFunctions, compilableNodes, node)]
    /\ UNCHANGED <<nodeActionFunctions, compilableNodes>>
    /\ UNCHANGED outsideContext

InitContext ==
    /\ cfg = CHOOSE c \in Configs : WorkSize(c) = 0 /\ c.maxThreads = 2
    /\ pc = "init"
    /\ taskSize = 0
    /\ numTasks = 0
    /\ program = <<>>
    /\ ip = 1
    /\ tasks = <<>>
    /\ loop = NewFrame(cfg, 0, 0)
    /\ scratch = <<>>
    /\ output = <<>>
    /\ writes = {}
    /\ runs = <<>>
    /\ life = [i \in InputPorts |-> "unborn"]
    /\ portType = [i \in InputPorts |-> "real"]
    /\ referencedPort = [i \in InputPorts |-> NullPort]
    /\ references = [o \in OutputPorts |-> {}]
    /\ crashed = FALSE
    /\ last = NoCall
    /\ nodeActionFunctions = <<>>
    /\ compilableNodes \in SUBSET Nodes
    /\ lastAction = NoAction
    /\ lastNodeCall = NoNodeCall
    /\ portObjects = NoPortObjects
    /\ archive = NoRecord
    /\ lastPortCall = NoPortCall
    /\ transformPhase = "idle"
    /\ originalModel = <<>>
    /\ currentModel = <<>>
    /\ transformedModel = <<>>
    /\ elementsMap = <<>>
    /\ previousElementMap = <<>>
    /\ visitNext = 1
    /\ iteration = 0
    /\ maxIterations = 1
    /\ transformFunctions = <<>>
    /\ isModelCompilable = FALSE
    /\ didRefineAny = FALSE
    /\ decisions = <<>>
    /\ passLog = <<>>
    /\ query = NoQuery
    /\ submodel = NoSubmodel
    /\ onto = <<>>
    /\ destModel = <<>>
    /\ isInPlace = FALSE
    /\ graph = NoGraph
    /\ headerPhase = "idle"
    /\ moduleFunctions = <<>>
    /\ nextFunction = 1
    /\ headerFunctions = <<>>
    /\ lossPhase = "idle"
    /\ lossArgs = <<>>
    /\ conjugateProx = <<>>
    /\ conjugateProxValue = <<>>
    /\ comparison = <<>>

NextContext ==
    \/ \E f \in NodeActionFunctions : AddNodeActionFunction(f)
    \/ \E node \in Nodes : CallGetNodeAction(node)

SpecContext == InitContext /\ [][NextContext]_vars

InitCompile ==
    /\ cfg \in Configs
    /\ pc = "init"
    /\ taskSize = 0
    /\ numTasks = 0
    /\ program = <<>>
    /\ ip = 1
    /\ tasks = <<>>
    /\ loop = NewFrame(cfg, 0, 0)
    /\ scratch = [ f \in 0..cfg.maxThreads |-> FreshScratch(cfg) ]
    /\ output = [ idx \in 0..(OutputSize(cfg) - 1) |-> Uninitialized(cfg) ]
    /\ writes = {}
    /\ runs = [ i \in 0..(WorkSize(cfg) - 1) |-> 0 ]
    /\ life = [i \in InputPorts |-> "unborn"]
    /\ portType = [i \in InputPorts |-> "real"]
    /\ referencedPort = [i \in InputPorts |-> NullPort]
    /\ references = [o \in OutputPorts |-> {}]
    /\ crashed = FALSE
    /\ last = NoCall
    /\ nodeActionFunctions = <<>>
    /\ compilableNodes = {}
    /\ lastAction = NoAction
    /\ lastNodeCall = NoNodeCall
    /\ portObjects = NoPortObjects
    /\ archive = NoRecord
    /\ lastPortCall = NoPortCall
    /\ transformPhase = "idle"
    /\ originalModel = <<>>
    /\ currentModel = <<>>
    /\ transformedModel = <<>>
    /\ elementsMap = <<>>
    /\ previousElementMap = <<>>
    /\ visitNext = 1
    /\ iteration = 0
    /\ maxIterations = 1
    /\ transformFunctions = <<>>
    /\ isModelCompilable = FALSE
    /\ didRefineAny = FALSE
    /\ decisions = <<>>
    /\ passLog = <<>>
    /\ query = NoQuery
    /\ submodel = NoSubmodel
    /\ onto = <<>>
    /\ destModel = <<>>
    /\ isInPlace = FALSE
    /\ graph = NoGraph
    /\ headerPhase = "idle"
    /\ moduleFunctions = <<>>
    /\ nextFunction = 1
    /\ headerFunctions = <<>>
    /\ lossPhase = "idle"
    /\ lossArgs = <<>>
    /\ conjugateProx = <<>>
    /\ conjugateProxValue = <<>>
    /\ comparison = <<>>

NextCompile ==
    \/ BinaryReceptiveFieldMatrixNodeCompile
    \/ BinaryXnorNodeCompile
    \/ StartTasks
    \/ \E k \in DOMAIN tasks : TaskLoad(k)
    \/ \E k \in DOMAIN tasks : TaskStore(k)
    \/ \E k \in DOMAIN tasks : TaskReturn(k)
    \/ WaitAll
    \/ LoopLoad
    \/ LoopStore
    \/ LoopExit
    \/ ReturnToCaller

SpecCompile == InitCompile /\ [][NextCompile]_vars

SpecPorts == InitPorts /\ [][NextPorts]_vars

(***************************************************************************)
(* The interpreted and the archive methods of the IR-only nodes.           *)
(***************************************************************************)
\* throw utilities::LogicException(utilities::LogicExceptionErrors::notImplemented)
NodeCall(method, outcome) == [method |-> method, outcome |-> outcome]

\* BinaryReceptiveFieldMatrixNode::Compute() const
BinaryReceptiveFieldMatrixNodeCompute ==
    /\ cfg.kind = ReceptiveFieldKind
    /\ lastNodeCall' = NodeCall("BinaryReceptiveFieldMatrixNode::Compute", "NotImplemented")
    /\ UNCHANGED outsideNodeCalls

\* BinaryReceptiveFieldMatrixNode::WriteToArchive(utilities::Archiver&) const
BinaryReceptiveFieldMatrixNodeWriteToArchive ==
    /\ cfg.kind = ReceptiveFieldKind
    /\ lastNodeCall' = NodeCall("BinaryReceptiveFieldMatrixNode::WriteToArchive", "NotImplemented")
    /\ UNCHANGED outsideNodeCalls

\* BinaryReceptiveFieldMatrixNode::ReadFromArchive(utilities::Unarchiver&)
BinaryReceptiveFieldMatrixNodeReadFromArchive ==
    /\ cfg.kind = ReceptiveFieldKind
    /\ lastNodeCall' = NodeCall("BinaryReceptiveFieldMatrixNode::ReadFromArchive", "NotImplemented")
    /\ UNCHANGED outsideNodeCalls

\* BinaryXnorNode::Compute() const
BinaryXnorNodeCompute ==
    /\ cfg.kind = XnorKind
    /\ lastNodeCall' = NodeCall("BinaryXnorNode::Compute", "NotImplemented")
    /\ UNCHANGED outsideNodeCalls

\* An archive method that writes nothing and returns.
BinaryXnorNodeWriteToArchiveSilent ==
    /\ cfg.kind = XnorKind
    /\ lastNodeCall' = NodeCall("BinaryXnorNode::WriteToArchive", "ok")
    /\ UNCHANGED outsideNodeCalls

\* BinaryXnorNode::WriteToArchive(utilities::Archiver&) const
BinaryXnorNodeWriteToArchive ==
    /\ cfg.kind = XnorKind
    /\ lastNodeCall' = NodeCall("BinaryXnorNode::WriteToArchive", "NotImplemented")
    /\ UNCHANGED outsideNodeCalls

\* BinaryXnorNode::ReadFromArchive(utilities::Unarchiver&)
BinaryXnorNodeReadFromArchive ==
    /\ cfg.kind = XnorKind
    /\ lastNodeCall' = NodeCall("BinaryXnorNode::ReadFromArchive", "NotImplemented")
    /\ UNCHANGED outsideNodeCalls

\* A node of either kind, before it is lowered.
InitNodeCalls ==
    /\ cfg \in Configs
    /\ pc = "init"
    /\ taskSize = 0
    /\ numTasks = 0
    /\ program = <<>>
    /\ ip = 1
    /\ tasks = <<>>
    /\ loop = NewFrame(cfg, 0, 0)
    /\ scratch = [ f \in 0..cfg.maxThreads |-> FreshScratch(cfg) ]
    /\ output = [ idx \in 0..(OutputSize(cfg) - 1) |-> Uninitialized(cfg) ]
    /\ writes = {}
    /\ runs = [ i \in 0..(WorkSize(cfg) - 1) |-> 0 ]
    /\ life = [i \in InputPorts |-> "unborn"]
    /\ portType = [i \in InputPorts |-> "real"]
    /\ referencedPort = [i \in InputPorts |-> NullPort]
    /\ references = [o \in OutputPorts |-> {}]
    /\ crashed = FALSE
    /\ last = NoCall
    /\ nodeActionFunctions = <<>>
    /\ compilableNodes = {}
    /\ lastAction = NoAction
    /\ lastNodeCall = NoNodeCall
    /\ portObjects = NoPortObjects
    /\ archive = NoRecord
    /\ lastPortCall = NoPortCall
    /\ transformPhase = "idle"
    /\ originalModel = <<>>
    /\ currentModel = <<>>
    /\ transformedModel = <<>>
    /\ elementsMap = <<>>
    /\ previousElementMap = <<>>
    /\ visitNext = 1
    /\ iteration = 0
    /\ maxIterations = 1
    /\ transformFunctions = <<>>
    /\ isModelCompilable = FALSE
    /\ didRefineAny = FALSE
    /\ decisions = <<>>
    /\ passLog = <<>>
    /\ query = NoQuery
    /\ submodel = NoSubmodel
    /\ onto = <<>>
    /\ destModel = <<>>
    /\ isInPlace = FALSE
    /\ graph = NoGraph
    /\ headerPhase = "idle"
    /\ moduleFunctions = <<>>
    /\ nextFunction = 1
    /\ headerFunctions = <<>>
    /\ lossPhase = "idle"
    /\ lossArgs = <<>>
    /\ conjugateProx = <<>>
    /\ conjugateProxValue = <<>>
    /\ comparison = <<>>

\* The methods can be called before and after the node is lowered.
NextNodeCalls ==
    \/ BinaryReceptiveFieldMatrixNodeCompute
    \/ BinaryReceptiveFieldMatrixNodeWriteToArchive
    \/ BinaryReceptiveFieldMatrixNodeReadFromArchive
    \/ BinaryXnorNodeCompute
    \/ BinaryXnorNodeWriteToArchive
    \/ BinaryXnorNodeReadFromArchive
    \/ BinaryReceptiveFieldMatrixNodeCompile
    \/ BinaryXnorNodeCompile

SpecNodeCalls == InitNodeCalls /\ [][NextNodeCalls]_vars

(***************************************************************************)
(* Port::Serialize and Port::Deserialize.                                  *)
(***************************************************************************)
\* The nodes of the enclosing model; NoNode is a null _node.
ModelNodes == {"nodeA", "nodeB"}
NoNode == "nullptr"

\* Node::GetId(): the identifier the model gave the node.
NodeId(node) == IF node = "nodeA" THEN 1 ELSE 2

\* The node of the enclosing model that carries an identifier.
NodeWithId(id) == CHOOSE node \in ModelNodes : NodeId(node) = id

PortObjectIds == {"port1", "port2"}
PortNames == {"input", "output"}

\* Port::PortType, the enumerators Port::GetPortType returns.
SerializedPortTypes == {"real", "integer", "boolean"}

\* static_cast<int>(_type) and static_cast<PortType>(typeCode), with
\* enum class PortType { none = 0, real, integer, categorical, boolean }.
PortTypeCode(type) ==
    CASE type = "none" -> 0
      [] type = "real" -> 1
      [] type = "integer" -> 2
      [] type = "categorical" -> 3
      [] type = "boolean" -> 4

PortTypeOfCode(typeCode) ==
    CASE typeCode = 0 -> "none"
      [] typeCode = 1 -> "real"
      [] typeCode = 2 -> "integer"
      [] typeCode = 3 -> "categorical"
      [] typeCode = 4 -> "boolean"

\* Port::Port(node, name, type): _node may be null (InputPortBase(PortType)).
PortObjectStates ==
    [node : ModelNodes \cup {NoNode}, name : PortNames \cup {""}, type : SerializedPortTypes]

\* The identifiers a read through a null _node can deliver.
GarbageNodeIds == {0, 1}

\* void Port::Serialize(utilities::Serializer& serializer) const
\* _node->GetId() dereferences _node unchecked.
Serialize(p) ==
    /\ IF portObjects[p].node = NoNode
       THEN \E outcome \in NullDereferenceOutcomes :
               IF outcome = "segfault"
               THEN /\ lastPortCall' = [op |-> "Serialize", port |-> p, outcome |-> outcome]
                    /\ UNCHANGED archive
               ELSE \E id \in GarbageNodeIds :
                       /\ archive' = [written |-> TRUE, nodeId |-> id,
                                      name |-> portObjects[p].name,
                                      type |-> PortTypeCode(portObjects[p].type),
                                      original |-> portObjects[p]]
                       /\ lastPortCall' = [op |-> "Serialize", port |-> p, outcome |-> outcome]
       ELSE /\ archive' = [written |-> TRUE, nodeId |-> NodeId(portObjects[p].node),
                           name |-> portObjects[p].name,
                           type |-> PortTypeCode(portObjects[p].type),
                           original |-> portObjects[p]]
            /\ lastPortCall' = [op |-> "Serialize", port |-> p, outcome |-> "ok"]
    /\ UNCHANGED portObjects
    /\ UNCHANGED outsideSerialize

\* void Port::Deserialize(utilities::Deserializer&, utilities::SerializationContext&)
\* nodeId is read into a local and dropped; _name and _type are assigned.
Deserialize(q) ==
    /\ archive.written
    /\ portObjects' = [portObjects EXCEPT ![q] =
                          [node |-> @.node,
                           name |-> archive.name,
                           type |-> PortTypeOfCode(archive.type)]]
    /\ lastPortCall' = [op |-> "Deserialize", port |-> q, outcome |-> "ok",
                        nodeId |-> archive.nodeId, original |-> archive.original]
    /\ UNCHANGED archive
    /\ UNCHANGED outsideSerialize

\* The ports as constructed, nothing written to the archive.
InitSerialize ==
    /\ cfg = CHOOSE c \in Configs : WorkSize(c) = 0 /\ c.maxThreads = 2
    /\ pc = "init"
    /\ taskSize = 0
    /\ numTasks = 0
    /\ program = <<>>
    /\ ip = 1
    /\ tasks = <<>>
    /\ loop = NewFrame(cfg, 0, 0)
    /\ scratch = <<>>
    /\ output = <<>>
    /\ writes = {}
    /\ runs = <<>>
    /\ life = [i \in InputPorts |-> "unborn"]
    /\ portType = [i \in InputPorts |-> "real"]
    /\ referencedPort = [i \in InputPorts |-> NullPort]
    /\ references = [o \in OutputPorts |-> {}]
    /\ crashed = FALSE
    /\ last = NoCall
    /\ nodeActionFunctions = <<>>
    /\ compilableNodes = {}
    /\ lastAction = NoAction
    /\ lastNodeCall = NoNodeCall
    /\ portObjects \in [PortObjectIds -> PortObjectStates]
    /\ archive = NoRecord
    /\ lastPortCall = NoPortCall
    /\ transformPhase = "idle"
    /\ originalModel = <<>>
    /\ currentModel = <<>>
    /\ transformedModel = <<>>
    /\ elementsMap = <<>>
    /\ previousElementMap = <<>>
    /\ visitNext = 1
    /\ iteration = 0
    /\ maxIterations = 1
    /\ transformFunctions = <<>>
    /\ isModelCompilable = FALSE
    /\ didRefineAny = FALSE
    /\ decisions = <<>>
    /\ passLog = <<>>
    /\ query = NoQuery
    /\ submodel = NoSubmodel
    /\ onto = <<>>
    /\ destModel = <<>>
    /\ isInPlace = FALSE
    /\ graph = NoGraph
    /\ headerPhase = "idle"
    /\ moduleFunctions = <<>>
    /\ nextFunction = 1
    /\ headerFunctions = <<>>
    /\ lossPhase = "idle"
    /\ lossArgs = <<>>
    /\ conjugateProx = <<>>
    /\ conjugateProxValue = <<>>
    /\ comparison = <<>>

NextSerialize ==
    \/ \E p \in PortObjectIds : Serialize(p)
    \/ \E q \in PortObjectIds : Deserialize(q)

SpecSerialize == InitSerialize /\ [][NextSerialize]_vars

(***************************************************************************)
(* ModelTransformer.  A model is the sequence of its nodes in the order    *)
(* they were added, which is a dependency order; every node has one output *)
(* port, named by the node's position in its model, and a sequence of      *)
(* input ports, each holding the output port it is bound to.  A            *)
(* transformation visits the nodes of the current model in order and       *)
(* builds the transformed model with AddNode, recording in the elements    *)
(* map which new output port stands for each old one.                      *)
(***************************************************************************)

\* Longest chain of nodes behind the input node of a source model.
MaxChain == 2

\* Largest maxIterations argument given to RefineModel.
MaxIterations == 2

\* What a correspondence query answers for a port that nothing was mapped for.
UnmappedPort == -1

ModelNode(kind, inputs, born) == [kind |-> kind, inputs |-> inputs, born |-> born]

\* Kinds of node the context's compiler can compile as they are.
CompilableKinds ==
    {"InputNode", "Leaf", "Optimizable", "ConstantNode",
     "BinaryReceptiveFieldMatrixNode", "BinaryXnorNode", "ReorderDataNode"}

\* Kinds of node whose Refine puts a different subgraph in their place.
RefinableKinds ==
    {"Composite2", "Composite1", "Restless", "Optimizable", "BinaryConvolutionalLayerNode"}

ChainKinds == {"Leaf", "Optimizable", "Composite2", "Restless", "Stuck",
               "BinaryConvolutionalLayerNode"}

NodeKinds == CompilableKinds \cup ChainKinds \cup {"Composite1"}

\* An input node followed by nodes of the given kinds, each fed by the one before.
RECURSIVE ChainModel(_)
ChainModel(kinds) ==
    IF kinds = <<>>
    THEN <<ModelNode("InputNode", <<>>, 0)>>
    ELSE LET front == ChainModel(SubSeq(kinds, 1, Len(kinds) - 1))
         IN  Append(front, ModelNode(kinds[Len(kinds)], <<Len(front)>>, 0))

SourceModels ==
    { ChainModel(kinds) : kinds \in UNION { [1..n -> ChainKinds] : n \in 1..MaxChain } }

\* A node action function that answers for the given kinds and abstains otherwise.
KindActionFunction(kinds, action) ==
    [k \in NodeKinds |-> IF k \in kinds THEN action ELSE "abstain"]

\* The node action functions a context may carry into a transformation.
TransformFunctionChains ==
    { <<>>,
      <<KindActionFunction({"Optimizable"}, "refine")>>,
      <<KindActionFunction({"Composite1"}, "compile")>>,
      <<KindActionFunction({"Composite1"}, "compile"),
        KindActionFunction({"Optimizable", "Leaf"}, "refine")>> }

IsOutputMapped(map, port) == port \in DOMAIN map

\* A port that nothing was mapped for stands for itself.
GetCorrespondingOutputsOrSelf(map, port) ==
    IF IsOutputMapped(map, port) THEN map[port] ELSE port

\* const OutputPortBase& GetCorrespondingOutputs(const OutputPortBase& port)
GetCorrespondingOutputs(map, port) ==
    IF IsOutputMapped(map, port) THEN map[port] ELSE UnmappedPort

\* GetCorrespondingInputs of every input port of a node: the new port that
\* stands for the port the input is bound to.
GetCorrespondingInputs(map, node) ==
    [k \in DOMAIN node.inputs |-> GetCorrespondingOutputs(map, node.inputs[k])]

\* PortOutputsMap::MapNodeOutput
MapNodeOutput(map, oldPort, newPort) == (oldPort :> newPort) @@ map

\* The map from the ports of the first model to those of the third.
ConcatenateMaps(oldMap, newMap) ==
    [p \in { x \in DOMAIN oldMap : oldMap[x] \in DOMAIN newMap } |-> newMap[oldMap[p]]]

\* A copy that loses the bindings of the node's inputs.
CopyNodeUnbound(node, newInputs, pass) ==
    <<ModelNode(node.kind, [k \in DOMAIN newInputs |-> NullPort], pass)>>

\* node.Copy(transformer): one node of the same kind on the corresponding inputs.
CopyNode(node, newInputs, pass) == <<ModelNode(node.kind, newInputs, pass)>>

\* BinaryConvolutionalLayerNode::Refine with AddRefinedNodes: the receptive
\* field matrix node on the new input, four constants, the xnor node on the
\* five of them, and the reorder node on the xnor node's output.
BinaryConvolutionalLayerNodeRefine(newInputs, base, pass) ==
    <<ModelNode("BinaryReceptiveFieldMatrixNode", <<newInputs[1]>>, pass),
      ModelNode("ConstantNode", <<>>, pass),
      ModelNode("ConstantNode", <<>>, pass),
      ModelNode("ConstantNode", <<>>, pass),
      ModelNode("ConstantNode", <<>>, pass),
      ModelNode("BinaryXnorNode", <<base + 1, base + 2, base + 3, base + 4, base + 5>>, pass),
      ModelNode("ReorderDataNode", <<base + 6>>, pass)>>

\* node.Refine(transformer): the nodes added to the transformed model, the
\* last of which carries the output mapped for the refined node.  A node
\* without a refinement copies itself.
RefineNode(node, newInputs, base, pass) ==
    CASE node.kind = "BinaryConvolutionalLayerNode" ->
            BinaryConvolutionalLayerNodeRefine(newInputs, base, pass)
      [] node.kind = "Composite2" -> <<ModelNode("Composite1", newInputs, pass)>>
      [] node.kind = "Composite1" -> <<ModelNode("Leaf", newInputs, pass)>>
      [] node.kind = "Optimizable" -> <<ModelNode("Leaf", newInputs, pass)>>
      [] node.kind = "Restless" -> <<ModelNode("Restless", newInputs, pass)>>
      [] OTHER -> CopyNode(node, newInputs, pass)

\* Every node is asked to refine itself, whatever the context answered.
TransformNodeByRefining(action, node, newInputs, base, pass) ==
    RefineNode(node, newInputs, base, pass)

\* A node the context answers refine for refines itself, any other node is
\* copied as it is.
TransformNode(action, node, newInputs, base, pass) ==
    IF action = "refine"
    THEN RefineNode(node, newInputs, base, pass)
    ELSE CopyNode(node, newInputs, pass)

\* The flag assigned from the nodes just added, forgetting what it was.
IsCompilableAfterAddingOverwriting(compilable, added) ==
    \A k \in DOMAIN added : IsNodeCompilable(CompilableKinds, added[k].kind)

\* ModelTransformer::AddNode on each new node in turn: the model stays
\* compilable only while every node added to it is.
IsCompilableAfterAdding(compilable, added) ==
    compilable /\ \A k \in DOMAIN added : IsNodeCompilable(CompilableKinds, added[k].kind)

\* The visit stays on a node until an output is mapped for it.
NextNodeToVisitOnceMapped(map, position) ==
    IF IsOutputMapped(map, position) THEN position + 1 ELSE position

\* The visit goes on to the next node of the current model.
NextNodeToVisit(map, position) == position + 1

\* The loop runs one pass more than maxIterations.
StopRefiningLate(pass, maxPasses, didRefine, compilable) ==
    \/ ~didRefine
    \/ compilable
    \/ pass >= maxPasses + 1

\* RefineModel leaves its loop after the given pass.
StopRefining(pass, maxPasses, didRefine, compilable) ==
    \/ ~didRefine
    \/ compilable
    \/ pass >= maxPasses

\* One node of the current model is visited: its action is asked from the
\* context, the node refines or copies itself into the transformed model,
\* and its output is mapped.
VisitNode ==
    /\ transformPhase = "refining"
    /\ visitNext <= Len(currentModel)
    /\ LET node == currentModel[visitNext]
           action == GetNodeAction(transformFunctions, CompilableKinds, node.kind)
           newInputs == GetCorrespondingInputs(elementsMap, node)
           pass == iteration + 1
           base == Len(transformedModel)
           didRefine == action = "refine" /\ node.kind \in RefinableKinds
           added == TransformNode(action, node, newInputs, base, pass)
           label == IF action = "compile" THEN "compiled"
                    ELSE IF didRefine THEN "refined" ELSE "copied"
       IN  IF \E k \in DOMAIN newInputs : newInputs[k] = UnmappedPort
           THEN /\ transformPhase' = "threw"
                /\ UNCHANGED <<transformedModel, elementsMap, isModelCompilable,
                               didRefineAny, decisions, visitNext>>
           ELSE /\ transformedModel' = transformedModel \o added
                /\ elementsMap' = MapNodeOutput(elementsMap, visitNext, base + Len(added))
                /\ isModelCompilable' = IsCompilableAfterAdding(isModelCompilable, added)
                /\ didRefineAny' = (didRefineAny \/ didRefine)
                /\ decisions' = Append(decisions, [pass |-> pass, position |-> visitNext,
                                                   born |-> node.born, label |-> label])
                /\ visitNext' = NextNodeToVisit(elementsMap, visitNext)
                /\ UNCHANGED transformPhase
    /\ UNCHANGED <<originalModel, currentModel, previousElementMap, iteration, maxIterations,
                   transformFunctions, passLog, query>>
    /\ UNCHANGED outsideTransform

\* The map from the ports of the model RefineModel was given to the ports
\* of the model the pass has built.
ElementsMapSoFar ==
    IF iteration = 0 THEN elementsMap ELSE ConcatenateMaps(previousElementMap, elementsMap)

PassRecord ==
    [nodes |-> Len(currentModel), didRefineAny |-> didRefineAny,
     isModelCompilable |-> isModelCompilable]

\* A pass ends and another begins on the model the pass has built.
EndPassAndContinue ==
    /\ transformPhase = "refining"
    /\ visitNext > Len(currentModel)
    /\ ~StopRefining(iteration + 1, maxIterations, didRefineAny, isModelCompilable)
    /\ passLog' = Append(passLog, PassRecord)
    /\ previousElementMap' = ElementsMapSoFar
    /\ elementsMap' = <<>>
    /\ currentModel' = transformedModel
    /\ transformedModel' = <<>>
    /\ isModelCompilable' = TRUE
    /\ didRefineAny' = FALSE
    /\ visitNext' = 1
    /\ iteration' = iteration + 1
    /\ UNCHANGED <<transformPhase, originalModel, maxIterations, transformFunctions,
                   decisions, query>>
    /\ UNCHANGED outsideTransform

\* A pass ends and RefineModel returns the model the pass has built: "The
\* refined Model" is the one result its declaration gives the call.
EndPassAndReturn ==
    /\ transformPhase = "refining"
    /\ visitNext > Len(currentModel)
    /\ StopRefining(iteration + 1, maxIterations, didRefineAny, isModelCompilable)
    /\ passLog' = Append(passLog, PassRecord)
    /\ elementsMap' = ElementsMapSoFar
    /\ transformPhase' = "returned"
    /\ UNCHANGED <<originalModel, currentModel, transformedModel, previousElementMap,
                   visitNext, iteration, maxIterations, transformFunctions,
                   isModelCompilable, didRefineAny, decisions, query>>
    /\ UNCHANGED outsideTransform

\* CopyModel: every node copied in order onto the copies of its inputs.
RECURSIVE CopyNodes(_, _, _)
CopyNodes(model, copied, map) ==
    IF Len(copied) = Len(model)
    THEN copied
    ELSE LET position == Len(copied) + 1
             node == model[position]
             added == CopyNode(node, GetCorrespondingInputs(map, node), 0)
         IN  CopyNodes(model, copied \o added,
                       MapNodeOutput(map, position, Len(copied) + Len(added)))

CopyModel(model) == CopyNodes(model, <<>>, <<>>)

\* The input port k of the node at a position of the model.
InputPortOf(position, k) == <<position, k>>

\* The place of an input port among the submodel's designated inputs, 0
\* when it is not one of them.
DesignatedIndex(sub, port) ==
    IF \E j \in DOMAIN sub.inputs : sub.inputs[j] = port
    THEN CHOOSE j \in DOMAIN sub.inputs : sub.inputs[j] = port
    ELSE 0

\* The nodes of a submodel: those its outputs depend on, followed back
\* through every input port that is not one of its designated inputs.
RECURSIVE SubmodelClosure(_, _, _)
SubmodelClosure(model, sub, nodes) ==
    LET reached == nodes \cup
            { q \in DOMAIN model :
                \E n \in nodes : \E k \in DOMAIN model[n].inputs :
                    /\ model[n].inputs[k] = q
                    /\ DesignatedIndex(sub, InputPortOf(n, k)) = 0 }
    IN  IF reached = nodes THEN nodes ELSE SubmodelClosure(model, sub, reached)

SubmodelNodes(model, sub) ==
    SubmodelClosure(model, sub, { sub.outputs[j] : j \in DOMAIN sub.outputs })

\* The first node of the submodel after a position, in model order; past
\* the end of the model when there is none.
NextSubmodelNode(model, sub, position) ==
    LET later == { n \in SubmodelNodes(model, sub) : n > position }
    IN  IF later = {} THEN Len(model) + 1
        ELSE CHOOSE n \in later : \A other \in later : n <= other

\* MapCorrespondingInputs and GetCorrespondingInputs for the input ports of
\* a node of the submodel: a designated input is grafted onto the onto port
\* at its place; any other input, and a designated input that no onto port
\* was given for, is looked up in the map under the output it is bound to.
\* GetCorrespondingInputs answers with a reference to an output port, so
\* an input without a corresponding port is an error, never an unbound
\* input.
CorrespondingSubmodelInputs(map, sub, ontoPorts, node, position) ==
    [k \in DOMAIN node.inputs |->
        LET j == DesignatedIndex(sub, InputPortOf(position, k))
        IN  IF j = 0 THEN GetCorrespondingOutputs(map, node.inputs[k])
            ELSE IF j <= Len(ontoPorts) THEN ontoPorts[j]
            ELSE GetCorrespondingOutputs(map, node.inputs[k])]

\* Every node of the submodel is copied.
ShouldCopyNodeAlways(inPlace, node, newInputs) == TRUE

\* ShouldCopyNode: outside an in-place copy every node is copied; in place,
\* a node is copied only when its copy would get other inputs than it has.
ShouldCopyNode(inPlace, node, newInputs) == ~inPlace \/ newInputs # node.inputs

\* One node of the submodel is visited: it is copied into the destination
\* model on its corresponding inputs, or, when the copy is elided, its
\* output is mapped to itself.
VisitSubmodelNode ==
    /\ transformPhase = "copying"
    /\ visitNext <= Len(originalModel)
    /\ LET node == originalModel[visitNext]
           newInputs == CorrespondingSubmodelInputs(elementsMap, submodel, onto, node, visitNext)
           added == CopyNode(node, newInputs, 1)
           base == Len(transformedModel)
       IN  IF \E k \in DOMAIN newInputs : newInputs[k] = UnmappedPort
           THEN /\ transformPhase' = "threw"
                /\ UNCHANGED <<currentModel, transformedModel, elementsMap,
                               isModelCompilable, decisions, visitNext>>
           ELSE IF ShouldCopyNode(isInPlace, node, newInputs)
           THEN /\ transformedModel' = transformedModel \o added
                /\ currentModel' = IF isInPlace THEN transformedModel' ELSE currentModel
                /\ elementsMap' = MapNodeOutput(elementsMap, visitNext, base + Len(added))
                /\ isModelCompilable' = IsCompilableAfterAdding(isModelCompilable, added)
                /\ decisions' = Append(decisions, [pass |-> 1, position |-> visitNext,
                                                   born |-> node.born, label |-> "copied"])
                /\ visitNext' = NextSubmodelNode(originalModel, submodel, visitNext)
                /\ UNCHANGED transformPhase
           ELSE /\ elementsMap' = MapNodeOutput(elementsMap, visitNext, visitNext)
                /\ decisions' = Append(decisions, [pass |-> 1, position |-> visitNext,
                                                   born |-> node.born, label |-> "elided"])
                /\ visitNext' = NextSubmodelNode(originalModel, submodel, visitNext)
                /\ UNCHANGED <<transformPhase, currentModel, transformedModel,
                               isModelCompilable>>
    /\ UNCHANGED <<originalModel, previousElementMap, iteration, maxIterations,
                   transformFunctions, didRefineAny, passLog, query>>
    /\ UNCHANGED outsideTransform

\* Every node of the submodel was visited: CopySubmodelOnto returns.
CopySubmodelOntoReturns ==
    /\ transformPhase = "copying"
    /\ visitNext > Len(originalModel)
    /\ transformPhase' = "copied"
    /\ UNCHANGED <<originalModel, currentModel, transformedModel, elementsMap,
                   previousElementMap, visitNext, iteration, maxIterations,
                   transformFunctions, isModelCompilable, didRefineAny, decisions, passLog,
                   query>>
    /\ UNCHANGED outsideTransform

\* The nodes of the model being transformed that the transformation has
\* processed so far.
ProcessedNodes ==
    CASE transformPhase = "refining" -> { n \in DOMAIN currentModel : n < visitNext }
      [] transformPhase = "returned" -> DOMAIN originalModel
      [] transformPhase = "copying" ->
            { n \in SubmodelNodes(originalModel, submodel) : n < visitNext }
      [] transformPhase = "copied" -> SubmodelNodes(originalModel, submodel)
      [] OTHER -> {}

\* The output ports a caller can name: those of the model being refined in
\* the running pass, or of the model the transformation was given.
QueryablePorts ==
    IF transformPhase = "refining" THEN DOMAIN currentModel ELSE DOMAIN originalModel

\* A node's Copy or Refine, or the caller afterwards, asks for the port
\* that stands for an output port of the model being transformed.
QueryCorrespondingOutputs ==
    /\ transformPhase \in {"refining", "returned", "copying", "copied"}
    /\ \E port \in QueryablePorts :
           query' = [port |-> port,
                     result |-> GetCorrespondingOutputs(elementsMap, port),
                     visited |-> port \in ProcessedNodes]
    /\ UNCHANGED <<transformPhase, originalModel, currentModel, transformedModel, elementsMap,
                   previousElementMap, visitNext, iteration, maxIterations,
                   transformFunctions, isModelCompilable, didRefineAny, decisions, passLog>>
    /\ UNCHANGED outsideTransform

\* Most input ports a submodel designates as its inputs.
MaxSubmodelInputs == 2

\* The chain A -> B -> C.
ChainABC ==
    <<ModelNode("InputNode", <<>>, 0),
      ModelNode("Leaf", <<1>>, 0),
      ModelNode("Leaf", <<2>>, 0)>>

\* The model of the CopySubmodelOnto documentation: I feeds B and B', the
\* sum node adds B and the constant X, and C follows the sum.
BranchingModel ==
    <<ModelNode("InputNode", <<>>, 0),
      ModelNode("Leaf", <<1>>, 0),
      ModelNode("Leaf", <<1>>, 0),
      ModelNode("ConstantNode", <<>>, 0),
      ModelNode("Leaf", <<2, 4>>, 0),
      ModelNode("Leaf", <<5>>, 0)>>

\* A model whose constant X is reached along two branches: I feeds B, P
\* adds B and X, Q adds P and X.
SharedConstantModel ==
    <<ModelNode("InputNode", <<>>, 0),
      ModelNode("Leaf", <<1>>, 0),
      ModelNode("ConstantNode", <<>>, 0),
      ModelNode("Leaf", <<2, 3>>, 0),
      ModelNode("Leaf", <<4, 3>>, 0)>>

CopySourceModels == {ChainABC, BranchingModel, SharedConstantModel}

InputPortsOf(model) ==
    { InputPortOf(n, k) : n \in DOMAIN model, k \in 1..2 } \cap
    UNION { { InputPortOf(n, k) : k \in DOMAIN model[n].inputs } : n \in DOMAIN model }

\* The input ports of a set, in model order.
RECURSIVE PortsInOrder(_)
PortsInOrder(ports) ==
    IF ports = {} THEN <<>>
    ELSE LET first == CHOOSE p \in ports : \A q \in ports :
                          p[1] < q[1] \/ (p[1] = q[1] /\ p[2] <= q[2])
         IN  <<first>> \o PortsInOrder(ports \ {first})

\* The submodels of a model: one output, and designated inputs that belong
\* to nodes the output depends on.
Submodels(model) ==
    { sub \in { [inputs |-> PortsInOrder(ports), outputs |-> <<out>>] :
                  ports \in { s \in SUBSET InputPortsOf(model) :
                                Cardinality(s) <= MaxSubmodelInputs },
                  out \in DOMAIN model } :
        \A j \in DOMAIN sub.inputs : sub.inputs[j][1] \in SubmodelNodes(model, sub) }

\* A model that is not the source model and has one node to graft onto.
OtherModel == <<ModelNode("InputNode", <<>>, 0)>>

\* The destination models: the source model itself for an in-place copy,
\* otherwise a fresh model, another model, or a distinct model equal in
\* value to the source model.
DestModels(model, inPlace) == IF inPlace THEN {model} ELSE {<<>>, OtherModel, model}

\* The onto lists: empty, or for every designated input the port it is
\* already bound to (when the destination has it) or the destination's
\* last output.
OntoLists(model, sub, dest) ==
    {<<>>} \cup
    { list \in [DOMAIN sub.inputs -> DOMAIN dest] :
        \A j \in DOMAIN list :
            \/ list[j] = model[sub.inputs[j][1]].inputs[sub.inputs[j][2]]
            \/ list[j] = Len(dest) }

\* CopySubmodelOnto(submodel, destModel, onto, context) is entered: the first node of the submodel is about to be visited.
InitCopy ==
    /\ originalModel \in CopySourceModels
    /\ submodel \in Submodels(originalModel)
    /\ isInPlace \in BOOLEAN
    /\ destModel \in DestModels(originalModel, isInPlace)
    /\ onto \in OntoLists(originalModel, submodel, destModel)
    /\ cfg = CHOOSE c \in Configs : WorkSize(c) = 0 /\ c.maxThreads = 2
    /\ pc = "init"
    /\ taskSize = 0
    /\ numTasks = 0
    /\ program = <<>>
    /\ ip = 1
    /\ tasks = <<>>
    /\ loop = NewFrame(cfg, 0, 0)
    /\ scratch = <<>>
    /\ output = <<>>
    /\ writes = {}
    /\ runs = <<>>
    /\ life = [i \in InputPorts |-> "unborn"]
    /\ portType = [i \in InputPorts |-> "real"]
    /\ referencedPort = [i \in InputPorts |-> NullPort]
    /\ references = [o \in OutputPorts |-> {}]
    /\ crashed = FALSE
    /\ last = NoCall
    /\ nodeActionFunctions = <<>>
    /\ compilableNodes = {}
    /\ lastAction = NoAction
    /\ lastNodeCall = NoNodeCall
    /\ portObjects = NoPortObjects
    /\ archive = NoRecord
    /\ lastPortCall = NoPortCall
    /\ transformPhase = "copying"
    /\ currentModel = originalModel
    /\ transformedModel = destModel
    /\ elementsMap = <<>>
    /\ previousElementMap = <<>>
    /\ visitNext = NextSubmodelNode(originalModel, submodel, 0)
    /\ iteration = 0
    /\ maxIterations = 1
    /\ transformFunctions = <<>>
    /\ isModelCompilable = TRUE
    /\ didRefineAny = FALSE
    /\ decisions = <<>>
    /\ passLog = <<>>
    /\ query = NoQuery
    /\ graph = NoGraph
    /\ headerPhase = "idle"
    /\ moduleFunctions = <<>>
    /\ nextFunction = 1
    /\ headerFunctions = <<>>
    /\ lossPhase = "idle"
    /\ lossArgs = <<>>
    /\ conjugateProx = <<>>
    /\ conjugateProxValue = <<>>
    /\ comparison = <<>>

NextCopy ==
    \/ VisitSubmodelNode
    \/ CopySubmodelOntoReturns
    \/ QueryCorrespondingOutputs

SpecCopy == InitCopy /\ [][NextCopy]_vars

\* RefineModel(CopyModel(M), context, maxIterations) is entered: the first pass is about to visit the first node.
InitRefine ==
    /\ cfg = CHOOSE c \in Configs : WorkSize(c) = 0 /\ c.maxThreads = 2
    /\ pc = "init"
    /\ taskSize = 0
    /\ numTasks = 0
    /\ program = <<>>
    /\ ip = 1
    /\ tasks = <<>>
    /\ loop = NewFrame(cfg, 0, 0)
    /\ scratch = <<>>
    /\ output = <<>>
    /\ writes = {}
    /\ runs = <<>>
    /\ life = [i \in InputPorts |-> "unborn"]
    /\ portType = [i \in InputPorts |-> "real"]
    /\ referencedPort = [i \in InputPorts |-> NullPort]
    /\ references = [o \in OutputPorts |-> {}]
    /\ crashed = FALSE
    /\ last = NoCall
    /\ nodeActionFunctions = <<>>
    /\ compilableNodes = {}
    /\ lastAction = NoAction
    /\ lastNodeCall = NoNodeCall
    /\ portObjects = NoPortObjects
    /\ archive = NoRecord
    /\ lastPortCall = NoPortCall
    /\ transformPhase = "refining"
    /\ originalModel \in { CopyModel(m) : m \in SourceModels }
    /\ currentModel = originalModel
    /\ transformedModel = <<>>
    /\ elementsMap = <<>>
    /\ previousElementMap = <<>>
    /\ visitNext = 1
    /\ iteration = 0
    /\ maxIterations \in 1..MaxIterations
    /\ transformFunctions \in TransformFunctionChains
    /\ isModelCompilable = TRUE
    /\ didRefineAny = FALSE
    /\ decisions = <<>>
    /\ passLog = <<>>
    /\ query = NoQuery
    /\ submodel = NoSubmodel
    /\ onto = <<>>
    /\ destModel = <<>>
    /\ isInPlace = FALSE
    /\ graph = NoGraph
    /\ headerPhase = "idle"
    /\ moduleFunctions = <<>>
    /\ nextFunction = 1
    /\ headerFunctions = <<>>
    /\ lossPhase = "idle"
    /\ lossArgs = <<>>
    /\ conjugateProx = <<>>
    /\ conjugateProxValue = <<>>
    /\ comparison = <<>>

NextRefine ==
    \/ VisitNode
    \/ EndPassAndContinue
    \/ EndPassAndReturn
    \/ QueryCorrespondingOutputs

SpecRefine == InitRefine /\ [][NextRefine]_vars

\* The steps of the RefineModel call itself.
RefineModelStep ==
    \/ VisitNode
    \/ EndPassAndContinue
    \/ EndPassAndReturn

\* RefineModel on its own: the call is synchronous and is not suspended for
\* ever, it takes its next step.
SpecRefineFair ==
    InitRefine /\ [][RefineModelStep]_vars /\ WF_vars(RefineModelStep)

(***************************************************************************)
(* A model under construction.  graph.inputs[n] holds, for every input     *)
(* port of node n, the node whose output port it references (NullPort      *)
(* when unbound); graph.references[n] holds the input ports registered     *)
(* with the output port of node n.                                         *)
(***************************************************************************)

\* Most nodes a model is given.
MaxGraphNodes == 3

\* The numbers of input ports a node may have.
InputCounts == {0, 1, 2}

\* The nodes whose outputs the inputs of node n reference.
ParentNodes(g, n) == { g.inputs[n][k] : k \in DOMAIN g.inputs[n] } \ {NullPort}

\* The nodes reached from a set of nodes by following input references.
RECURSIVE Ancestors(_, _)
Ancestors(g, nodes) ==
    LET reached == nodes \cup UNION { ParentNodes(g, n) : n \in nodes }
    IN  IF reached = nodes THEN nodes ELSE Ancestors(g, reached)

\* Node n's own output is among the outputs its inputs depend on.
DependsOnItself(g, n) == n \in Ancestors(g, ParentNodes(g, n))

\* The node types a node implementor adds: one the context's compiler can
\* compile and one it cannot.
GraphNodeKinds == {"Leaf", "Stuck"}

\* What the transformer holds besides its model and its flag.
transformerRest ==
    <<transformPhase, originalModel, currentModel, transformedModel, elementsMap,
      previousElementMap, visitNext, iteration, maxIterations, transformFunctions,
      didRefineAny, decisions, passLog, query>>

\* Model::AddNode: the node's input ports are constructed on output ports of
\* nodes the model already has, each registering itself with the port it
\* references.
ModelAddNode(g, kind, boundTo) ==
    LET n == Len(g.inputs) + 1
        Bind[k \in 0..Len(boundTo)] ==
            IF k = 0 THEN Append(g.references, {})
            ELSE SetReferencedPortEffect(Bind[k - 1], <<n, k>>, NullPort, boundTo[k])
    IN  [inputs |-> Append(g.inputs, boundTo),
         references |-> Bind[Len(boundTo)],
         kinds |-> Append(g.kinds, kind)]

\* ModelTransformer::AddNode, for a node that is created, copied or put in by
\* a refinement: _model.AddNode, then
\* _isModelCompilable &= _context.IsNodeCompilable(*newNode).
AddNode(kind, boundTo) ==
    /\ Len(graph.inputs) < MaxGraphNodes
    /\ graph' = ModelAddNode(graph, kind, boundTo)
    /\ isModelCompilable' =
          IsCompilableAfterAdding(isModelCompilable, << ModelNode(kind, boundTo, 0) >>)
    /\ UNCHANGED transformerRest
    /\ UNCHANGED <<compileVars, portVars, contextVars, nodeCallVars, serializeVars,
                   copyVars, headerVars, lossVars>>

\* ModelTransformer::SimplifyOutputs: _model.SimplifyOutputs(elements) adds a
\* node to the transformed model that routes the given outputs to a new
\* output port; the flag is not looked at.
SimplifyOutputs(kind, elements) ==
    /\ Len(graph.inputs) < MaxGraphNodes
    /\ graph' = ModelAddNode(graph, kind, elements)
    /\ UNCHANGED outsideGraph

\* InputPortBase::SetReferencedPort on input port k of node n: the port
\* leaves the references of the output it referenced, joins those of the
\* new one and references it.
RebindInput(n, k, input) ==
    /\ n \in DOMAIN graph.inputs
    /\ k \in DOMAIN graph.inputs[n]
    /\ graph' = [graph EXCEPT
                    !.inputs = [graph.inputs EXCEPT ![n][k] = input],
                    !.references = SetReferencedPortEffect(graph.references, <<n, k>>,
                                                           graph.inputs[n][k], input)]
    /\ UNCHANGED outsideGraph

\* A transformer whose model has no nodes yet and whose flag is set, as at
\* the start of a pass.
InitGraph ==
    /\ cfg = CHOOSE c \in Configs : WorkSize(c) = 0 /\ c.maxThreads = 2
    /\ pc = "init"
    /\ taskSize = 0
    /\ numTasks = 0
    /\ program = <<>>
    /\ ip = 1
    /\ tasks = <<>>
    /\ loop = NewFrame(cfg, 0, 0)
    /\ scratch = <<>>
    /\ output = <<>>
    /\ writes = {}
    /\ runs = <<>>
    /\ life = [i \in InputPorts |-> "unborn"]
    /\ portType = [i \in InputPorts |-> "real"]
    /\ referencedPort = [i \in InputPorts |-> NullPort]
    /\ references = [o \in OutputPorts |-> {}]
    /\ crashed = FALSE
    /\ last = NoCall
    /\ nodeActionFunctions = <<>>
    /\ compilableNodes = {}
    /\ lastAction = NoAction
    /\ lastNodeCall = NoNodeCall
    /\ portObjects = NoPortObjects
    /\ archive = NoRecord
    /\ lastPortCall = NoPortCall
    /\ transformPhase = "idle"
    /\ originalModel = <<>>
    /\ currentModel = <<>>
    /\ transformedModel = <<>>
    /\ elementsMap = <<>>
    /\ previousElementMap = <<>>
    /\ visitNext = 1
    /\ iteration = 0
    /\ maxIterations = 1
    /\ transformFunctions = <<>>
    /\ isModelCompilable = TRUE
    /\ didRefineAny = FALSE
    /\ decisions = <<>>
    /\ passLog = <<>>
    /\ query = NoQuery
    /\ submodel = NoSubmodel
    /\ onto = <<>>
    /\ destModel = <<>>
    /\ isInPlace = FALSE
    /\ graph = NoGraph
    /\ headerPhase = "idle"
    /\ moduleFunctions = <<>>
    /\ nextFunction = 1
    /\ headerFunctions = <<>>
    /\ lossPhase = "idle"
    /\ lossArgs = <<>>
    /\ conjugateProx = <<>>
    /\ conjugateProxValue = <<>>
    /\ comparison = <<>>

NextGraph ==
    \/ \E kind \in GraphNodeKinds, count \in InputCounts :
       \E boundTo \in [1..count -> DOMAIN graph.inputs] :
           AddNode(kind, boundTo)
    \/ \E kind \in GraphNodeKinds, count \in InputCounts \ {0} :
       \E elements \in [1..count -> DOMAIN graph.inputs] :
           SimplifyOutputs(kind, elements)
    \/ \E n \in DOMAIN graph.inputs : \E k \in DOMAIN graph.inputs[n] :
       \E input \in {NullPort} \cup DOMAIN graph.inputs :
           RebindInput(n, k, input)

SpecGraph == InitGraph /\ [][NextGraph]_vars

(***************************************************************************)
(* BinaryXnorNode: one packed row, over every field volume and vector      *)
(* width.                                                                  *)
(***************************************************************************)
MaxFieldVolume == 130
MaxVectorWidth == 4

\* One filter and one output pixel (a single row of packed words), the field
\* volume, the word width, vectorWidth and the two flags varying.
XnorRowConfigs ==
    { [kind |-> XnorKind, bits |-> b,
       receptiveField |-> 1, inputDepth |-> v, stride |-> 1,
       outputImageHeight |-> 1, outputImageWidth |-> 1, numFilters |-> 1,
       maxThreads |-> 1, parallelize |-> FALSE,
       allowVectorInstructions |-> vec, vectorWidth |-> vw,
       hasZeroPadding |-> pad, scaleByFilterMeans |-> scale, seed |-> 1] :
      b \in PackedBitWidths, v \in 1..MaxFieldVolume, vw \in 1..MaxVectorWidth,
      vec \in BOOLEAN, pad \in BOOLEAN, scale \in BOOLEAN }

\* EmitInnerLoop: function.For(startBlock, startBlock + numBlocks, ...) over
\* an array whose elements are lanes words wide (lanes = vectorSize through
\* the vector pointers, 1 through the scalar ones): iteration i reads words
\* i * lanes .. i * lanes + lanes - 1.
InnerLoopBlocks(startBlock, numBlocks, lanes) ==
    [ i \in startBlock..(startBlock + numBlocks - 1) |->
        { i * lanes + l : l \in 0..(lanes - 1) } ]

\* if (numVectorBlocks > 0) EmitInnerLoop(..., 0, numVectorBlocks, ...)
VectorLoop(c) ==
    IF NumVectorBlocks(c) > 0
    THEN InnerLoopBlocks(0, NumVectorBlocks(c), c.vectorWidth)
    ELSE << >>

\* if (numScalarBlocks > 0) EmitInnerLoop(..., start, numScalarBlocks, ...)
ScalarLoop(c) ==
    LET numScalarBlocks == PackedRowSize(c) - (c.vectorWidth * NumVectorBlocks(c))
        start == c.vectorWidth * NumVectorBlocks(c)
    IN  IF numScalarBlocks > 0 THEN InnerLoopBlocks(start, numScalarBlocks, 1) ELSE << >>

\* BinaryXnorNode compiled for one row, and its sequential loop run.
InitXnorRow ==
    /\ cfg \in XnorRowConfigs
    /\ pc = "init"
    /\ taskSize = 0
    /\ numTasks = 0
    /\ program = <<>>
    /\ ip = 1
    /\ tasks = <<>>
    /\ loop = NewFrame(cfg, 0, 0)
    /\ scratch = [ f \in 0..cfg.maxThreads |-> FreshScratch(cfg) ]
    /\ output = [ idx \in 0..(OutputSize(cfg) - 1) |-> Uninitialized(cfg) ]
    /\ writes = {}
    /\ runs = [ i \in 0..(WorkSize(cfg) - 1) |-> 0 ]
    /\ life = [i \in InputPorts |-> "unborn"]
    /\ portType = [i \in InputPorts |-> "real"]
    /\ referencedPort = [i \in InputPorts |-> NullPort]
    /\ references = [o \in OutputPorts |-> {}]
    /\ crashed = FALSE
    /\ last = NoCall
    /\ nodeActionFunctions = <<>>
    /\ compilableNodes = {}
    /\ lastAction = NoAction
    /\ lastNodeCall = NoNodeCall
    /\ portObjects = NoPortObjects
    /\ archive = NoRecord
    /\ lastPortCall = NoPortCall
    /\ transformPhase = "idle"
    /\ originalModel = <<>>
    /\ currentModel = <<>>
    /\ transformedModel = <<>>
    /\ elementsMap = <<>>
    /\ previousElementMap = <<>>
    /\ visitNext = 1
    /\ iteration = 0
    /\ maxIterations = 1
    /\ transformFunctions = <<>>
    /\ isModelCompilable = FALSE
    /\ didRefineAny = FALSE
    /\ decisions = <<>>
    /\ passLog = <<>>
    /\ query = NoQuery
    /\ submodel = NoSubmodel
    /\ onto = <<>>
    /\ destModel = <<>>
    /\ isInPlace = FALSE
    /\ graph = NoGraph
    /\ headerPhase = "idle"
    /\ moduleFunctions = <<>>
    /\ nextFunction = 1
    /\ headerFunctions = <<>>
    /\ lossPhase = "idle"
    /\ lossArgs = <<>>
    /\ conjugateProx = <<>>
    /\ conjugateProxValue = <<>>
    /\ comparison = <<>>

NextXnorRow ==
    \/ BinaryXnorNodeCompile
    \/ LoopLoad
    \/ LoopStore
    \/ LoopExit
    \/ ReturnToCaller

SpecXnorRow == InitXnorRow /\ [][NextXnorRow]_vars

(***************************************************************************)
(* IRHeaderWriter: the function declarations of a module header.           *)
(* A function name is the sequence of its characters.                      *)
(***************************************************************************)
MaxFunctions == 3

\* llvm::Function: hasName() and getName().
Function(name) == [hasName |-> name # << >>, name |-> name]

\* Names with and without the prefixes ShouldWriteFunction looks for; the
\* empty name is that of an unnamed function.
FunctionNames ==
    { << >>,
      <<"f">>,
      <<"f", "_">>,
      <<"_", "f">>,
      <<"_", "N", "o", "d", "e", "_", "_", "1">>,
      <<"l", "l", "v", "m", ".", "x">>,
      <<"l", "l", "v", "m">>,
      <<"c", "l", "o", "c", "k", "_", "g", "e", "t", "t", "i", "m", "e">>,
      <<"c", "l", "o", "c", "k">>,
      <<"c", "b", "l", "a", "s", "_", "x">>,
      <<"p", "r", "i", "n", "t", "f">>,
      <<"p", "r", "i", "n", "t">> }

\* The function lists of a module: the named functions have distinct names.
Modules ==
    { fs \in UNION { [1..n -> { Function(name) : name \in FunctionNames }] : n \in 0..MaxFunctions } :
        \A i \in DOMAIN fs, j \in DOMAIN fs :
            (i # j /\ fs[i].hasName) => fs[i].name # fs[j].name }

\* std::string::find(pattern): the position of the first occurrence of
\* pattern, counted from 0, or npos (-1 here) when there is none.
Find(str, pattern) ==
    LET occurrences == { i \in 0..(Len(str) - Len(pattern)) :
                           SubSeq(str, i + 1, i + Len(pattern)) = pattern }
    IN  IF occurrences = {}
        THEN -1
        ELSE CHOOSE i \in occurrences : \A j \in occurrences : i <= j

\* The heuristic with its tests turned into "occurs anywhere in the name".
ShouldWriteFunctionSearchingAnywhere(f) ==
    /\ f.hasName
    /\ Find(f.name, <<"_", "N", "o", "d", "e", "_", "_">>) = -1
    /\ Find(f.name, <<"l", "l", "v", "m", ".">>) = -1
    /\ Find(f.name, <<"c", "l", "o", "c", "k", "_", "g", "e", "t", "t", "i", "m", "e">>) = -1
    /\ Find(f.name, <<"c", "b", "l", "a", "s">>) = -1
    /\ Find(f.name, <<"p", "r", "i", "n", "t", "f">>) = -1
    /\ Find(f.name, <<"_">>) = -1

\* bool ShouldWriteFunction(const llvm::Function& f)
ShouldWriteFunction(f) ==
    IF ~f.hasName THEN FALSE
    ELSE IF Find(f.name, <<"_", "N", "o", "d", "e", "_", "_">>) = 0 THEN FALSE
    ELSE IF Find(f.name, <<"l", "l", "v", "m", ".">>) = 0 THEN FALSE
    ELSE IF Find(f.name, <<"c", "l", "o", "c", "k", "_", "g", "e", "t", "t", "i", "m", "e">>) = 0 THEN FALSE
    ELSE IF Find(f.name, <<"c", "b", "l", "a", "s">>) = 0 THEN FALSE
    ELSE IF Find(f.name, <<"p", "r", "i", "n", "t", "f">>) = 0 THEN FALSE
    ELSE IF Find(f.name, <<"_">>) = 0 THEN FALSE
    ELSE TRUE

\* WriteFunction: the signature of a named function is written (nothing
\* for an unnamed one); position is the function's place in the module.
WriteFunction(written, f, position) ==
    IF f.hasName
    THEN Append(written, [position |-> position, name |-> f.name])
    ELSE written

\* One iteration of "for (auto& f : pModule->functions())".
WriteModuleHeaderStep ==
    /\ headerPhase = "functions"
    /\ nextFunction <= Len(moduleFunctions)
    /\ headerFunctions' =
          IF ShouldWriteFunction(moduleFunctions[nextFunction])
          THEN WriteFunction(headerFunctions, moduleFunctions[nextFunction], nextFunction)
          ELSE headerFunctions
    /\ nextFunction' = nextFunction + 1
    /\ UNCHANGED <<headerPhase, moduleFunctions>>
    /\ UNCHANGED outsideHeader

\* The loop is over: the closing lines are written and the header is done.
WriteModuleHeaderEnd ==
    /\ headerPhase = "functions"
    /\ nextFunction > Len(moduleFunctions)
    /\ headerPhase' = "written"
    /\ UNCHANGED <<moduleFunctions, nextFunction, headerFunctions>>
    /\ UNCHANGED outsideHeader

\* WriteModuleHeader has written the preamble and the types of some module.
InitHeader ==
    /\ cfg = CHOOSE c \in Configs : WorkSize(c) = 0 /\ c.maxThreads = 2
    /\ pc = "init"
    /\ taskSize = 0
    /\ numTasks = 0
    /\ program = <<>>
    /\ ip = 1
    /\ tasks = <<>>
    /\ loop = NewFrame(cfg, 0, 0)
    /\ scratch = <<>>
    /\ output = <<>>
    /\ writes = {}
    /\ runs = <<>>
    /\ life = [i \in InputPorts |-> "unborn"]
    /\ portType = [i \in InputPorts |-> "real"]
    /\ referencedPort = [i \in InputPorts |-> NullPort]
    /\ references = [o \in OutputPorts |-> {}]
    /\ crashed = FALSE
    /\ last = NoCall
    /\ nodeActionFunctions = <<>>
    /\ compilableNodes = {}
    /\ lastAction = NoAction
    /\ lastNodeCall = NoNodeCall
    /\ portObjects = NoPortObjects
    /\ archive = NoRecord
    /\ lastPortCall = NoPortCall
    /\ transformPhase = "idle"
    /\ originalModel = <<>>
    /\ currentModel = <<>>
    /\ transformedModel = <<>>
    /\ elementsMap = <<>>
    /\ previousElementMap = <<>>
    /\ visitNext = 1
    /\ iteration = 0
    /\ maxIterations = 1
    /\ transformFunctions = <<>>
    /\ isModelCompilable = FALSE
    /\ didRefineAny = FALSE
    /\ decisions = <<>>
    /\ passLog = <<>>
    /\ query = NoQuery
    /\ submodel = NoSubmodel
    /\ onto = <<>>
    /\ destModel = <<>>
    /\ isInPlace = FALSE
    /\ graph = NoGraph
    /\ headerPhase = "functions"
    /\ moduleFunctions \in Modules
    /\ nextFunction = 1
    /\ headerFunctions = <<>>
    /\ lossPhase = "idle"
    /\ lossArgs = <<>>
    /\ conjugateProx = <<>>
    /\ conjugateProxValue = <<>>
    /\ comparison = <<>>

NextHeader ==
    \/ WriteModuleHeaderStep
    \/ WriteModuleHeaderEnd

SpecHeader == InitHeader /\ [][NextHeader]_vars

(***************************************************************************)
(* HuberLoss: Conjugate and ConjugateProx.  A double is modelled by the    *)
(* rational it stands for, a fraction num / den in lowest terms with       *)
(* den > 0, and +infinity and NaN by values of their own.                  *)
(***************************************************************************)
MaxTheta == 3
MaxPoint == 4
MaxLossOutput == 2
MaxGamma == 3
GridSteps == 4

RECURSIVE Gcd(_, _)
Gcd(a, b) == IF b = 0 THEN a ELSE Gcd(b, a % b)

Rat(n, d) ==
    LET g == Gcd(Abs(n), Abs(d))
        sign == IF d < 0 THEN -1 ELSE 1
    IN  [kind |-> "finite", num |-> sign * (n \div g), den |-> sign * (d \div g)]

Infinity == [kind |-> "inf", num |-> 1, den |-> 1]
MinusInfinity == [kind |-> "-inf", num |-> -1, den |-> 1]
NotANumber == [kind |-> "nan", num |-> 0, den |-> 1]

\* x + y, x - y, x * y, x / y on doubles (operands of + and * above
\* -infinity, finite operands of /; a product with +infinity is +infinity
\* for a positive factor and NaN for 0).
RAdd(x, y) ==
    IF x.kind = "nan" \/ y.kind = "nan" THEN NotANumber
    ELSE IF x.kind = "inf" \/ y.kind = "inf" THEN Infinity
    ELSE Rat(x.num * y.den + y.num * x.den, x.den * y.den)

RSub(x, y) ==
    IF x.kind = "nan" \/ y.kind = "nan" \/ (x.kind = y.kind /\ x.kind # "finite") THEN NotANumber
    ELSE IF x.kind # "finite" THEN x
    ELSE IF y.kind = "inf" THEN MinusInfinity
    ELSE IF y.kind = "-inf" THEN Infinity
    ELSE Rat(x.num * y.den - y.num * x.den, x.den * y.den)

RMul(x, y) ==
    IF x.kind = "finite" /\ y.kind = "finite"
    THEN Rat(x.num * y.num, x.den * y.den)
    ELSE IF (x.kind = "finite" /\ x.num = 0) \/ (y.kind = "finite" /\ y.num = 0)
              \/ x.kind = "nan" \/ y.kind = "nan"
         THEN NotANumber
         ELSE Infinity

RDiv(x, y) == Rat(x.num * y.den, x.den * y.num)

\* x <= y on doubles: false when an operand is NaN.
RLeq(x, y) ==
    IF x.kind = "nan" \/ y.kind = "nan" THEN FALSE
    ELSE IF x.kind = "-inf" \/ y.kind = "inf" THEN TRUE
    ELSE IF x.kind = "inf" \/ y.kind = "-inf" THEN FALSE
    ELSE x.num * y.den <= y.num * x.den

One == Rat(1, 1)
MinusOne == Rat(-1, 1)
Half == Rat(1, 2)

\* The arguments of the calls: theta >= 0, z, output and gamma > 0, in
\* halves.
LossArguments ==
    { [theta |-> Rat(t, 2), z |-> Rat(z, 2), output |-> Rat(o, 2), gamma |-> Rat(g, 2)] :
        t \in 0..MaxTheta, z \in (-MaxPoint)..MaxPoint,
        o \in (-MaxLossOutput)..MaxLossOutput, g \in 1..MaxGamma }

\* The points the objective is compared at: a grid over [-1, 1] and one
\* step beyond each end.
ComparatorPoints == { Rat(k, GridSteps) : k \in (-GridSteps - 1)..(GridSteps + 1) }

\* double HuberLoss::Conjugate(double v, OutputType output) const (y: output)
Conjugate(gamma, v, y) ==
    IF RLeq(MinusOne, v) /\ RLeq(v, One)
    THEN RAdd(RMul(y, v), RMul(RMul(RMul(Half, gamma), v), v))
    ELSE Infinity

\* The clamp with its bounds at -2 and 2.
ConjugateProxClampedAtTwo(gamma, theta, z, y) ==
    LET a == RDiv(RSub(z, RMul(theta, y)), RAdd(One, RMul(theta, gamma)))
    IN  IF RLeq(a, Rat(-2, 1)) THEN Rat(-2, 1)
        ELSE IF RLeq(Rat(2, 1), a) THEN Rat(2, 1)
        ELSE a

\* double HuberLoss::ConjugateProx(double theta, double z, OutputType output) const
\* (y: output)
ConjugateProx(gamma, theta, z, y) ==
    LET a == RDiv(RSub(z, RMul(theta, y)), RAdd(One, RMul(theta, gamma)))
    IN  IF RLeq(a, MinusOne) THEN MinusOne
        ELSE IF RLeq(One, a) THEN One
        ELSE a

\* theta * loss.Conjugate(x, output) + 0.5 * (x - z) * (x - z), the value
\* taken at the result and the first part of the search's objective.
Objective(args, x) ==
    RAdd(RMul(args.theta, Conjugate(args.gamma, x, args.output)),
         RMul(RMul(Half, RSub(x, args.z)), RSub(x, args.z)))

\* TestConjugateProx: the call, and the objective's value at its result.
CallConjugateProx ==
    /\ lossPhase = "constructed"
    /\ conjugateProx' = ConjugateProx(lossArgs.gamma, lossArgs.theta, lossArgs.z, lossArgs.output)
    /\ conjugateProxValue' = Objective(lossArgs, conjugateProx')
    /\ lossPhase' = "called"
    /\ UNCHANGED <<lossArgs, comparison>>
    /\ UNCHANGED outsideLoss

\* TestConjugateProx: the search's objective evaluated at a point x,
\* theta * loss.Conjugate(x, output) + 0.5 * (x - z) * (x - z) - conjugateProxValue.
EvaluateObjective(x) ==
    /\ lossPhase \in {"called", "compared"}
    /\ comparison' = [x |-> x, value |-> RSub(Objective(lossArgs, x), conjugateProxValue)]
    /\ lossPhase' = "compared"
    /\ UNCHANGED <<lossArgs, conjugateProx, conjugateProxValue>>
    /\ UNCHANGED outsideLoss

\* A HuberLoss(gamma) and the arguments of a ConjugateProx call.
InitLoss ==
    /\ cfg = CHOOSE c \in Configs : WorkSize(c) = 0 /\ c.maxThreads = 2
    /\ pc = "init"
    /\ taskSize = 0
    /\ numTasks = 0
    /\ program = <<>>
    /\ ip = 1
    /\ tasks = <<>>
    /\ loop = NewFrame(cfg, 0, 0)
    /\ scratch = <<>>
    /\ output = <<>>
    /\ writes = {}
    /\ runs = <<>>
    /\ life = [i \in InputPorts |-> "unborn"]
    /\ portType = [i \in InputPorts |-> "real"]
    /\ referencedPort = [i \in InputPorts |-> NullPort]
    /\ references = [o \in OutputPorts |-> {}]
    /\ crashed = FALSE
    /\ last = NoCall
    /\ nodeActionFunctions = <<>>
    /\ compilableNodes = {}
    /\ lastAction = NoAction
    /\ lastNodeCall = NoNodeCall
    /\ portObjects = NoPortObjects
    /\ archive = NoRecord
    /\ lastPortCall = NoPortCall
    /\ transformPhase = "idle"
    /\ originalModel = <<>>
    /\ currentModel = <<>>
    /\ transformedModel = <<>>
    /\ elementsMap = <<>>
    /\ previousElementMap = <<>>
    /\ visitNext = 1
    /\ iteration = 0
    /\ maxIterations = 1
    /\ transformFunctions = <<>>
    /\ isModelCompilable = FALSE
    /\ didRefineAny = FALSE
    /\ decisions = <<>>
    /\ passLog = <<>>
    /\ query = NoQuery
    /\ submodel = NoSubmodel
    /\ onto = <<>>
    /\ destModel = <<>>
    /\ isInPlace = FALSE
    /\ graph = NoGraph
    /\ headerPhase = "idle"
    /\ moduleFunctions = <<>>
    /\ nextFunction = 1
    /\ headerFunctions = <<>>
    /\ lossPhase = "constructed"
    /\ lossArgs \in LossArguments
    /\ conjugateProx = <<>>
    /\ conjugateProxValue = <<>>
    /\ comparison = <<>>

NextLoss ==
    \/ CallConjugateProx
    \/ \E x \in ComparatorPoints : EvaluateObjective(x)

SpecLoss == InitLoss /\ [][NextLoss]_vars

(***************************************************************************)
(* Properties of the lowering.                                             *)
(***************************************************************************)
Compiled == pc \in {"emitted", "returned"}

OnParallelPath == Compiled /\ Len(program) >= 1 /\ program[1].op = "StartTasks"

\* The mathematical ceiling of a / b, a >= 0 and b >= 1.
MathCeil(a, b) == (a + b - 1) \div b

\* ceil(N / ceil(N / D)); no range at all for an empty work size.
ClaimedTaskCount(n, d) ==
    IF MathCeil(n, d) = 0 THEN 0 ELSE MathCeil(n, MathCeil(n, d))

\* ranges (a sequence of <<start, end>>) exactly tiles [0, n).
Tiles(ranges, n) ==
    /\ Len(ranges) = 0 => n = 0
    /\ Len(ranges) > 0 => ranges[1][1] = 0 /\ ranges[Len(ranges)][2] = n
    /\ \A k \in 1..Len(ranges) : ranges[k][1] <= ranges[k][2]
    /\ \A k \in 1..(Len(ranges) - 1) : ranges[k][2] = ranges[k + 1][1]
    /\ \A x \in 0..(n - 1) :
          Cardinality({ k \in 1..Len(ranges) : ranges[k][1] <= x /\ x < ranges[k][2] }) = 1

\* C1 (as claimed): for every N >= 0 and D >= 1, Compile computes its task
\* ranges: it ends normally, the number of ranges is ceil(N / ceil(N / D)),
\* and the ranges it hands to the tasks exactly tile [0, N).
C1_RangesTileEveryWorkSize ==
    pc # "init" =>
        /\ pc # "trapped"
        /\ numTasks = ClaimedTaskCount(WorkSize(cfg), cfg.maxThreads)
        /\ OnParallelPath =>
              /\ Len(program[1].args) = numTasks
              /\ Tiles(program[1].args, WorkSize(cfg))

\* The same for N >= 1 only, where CeilDiv is the ceiling.
RangesTilePositiveWorkSize ==
    (pc # "init" /\ WorkSize(cfg) >= 1) =>
        /\ pc # "trapped"
        /\ numTasks = ClaimedTaskCount(WorkSize(cfg), cfg.maxThreads)
        /\ Tiles(TaskArgs(numTasks, taskSize, WorkSize(cfg)), WorkSize(cfg))
        /\ OnParallelPath => program[1].args = TaskArgs(numTasks, taskSize, WorkSize(cfg))

\* C2: on the parallel path the emitted code has a WaitAll after every
\* StartTasks, and the caller is past that WaitAll (or back in its caller)
\* only when every task of the set has been started and has returned.
C2_JoinBeforeCallerGoesOn ==
    OnParallelPath =>
        \E w \in 1..Len(program) :
            /\ program[w].op = "WaitAll"
            /\ \A s \in 1..Len(program) : program[s].op = "StartTasks" => s < w
            /\ (ip > w \/ pc = "returned") =>
                  /\ Len(tasks) = numTasks
                  /\ \A k \in 1..Len(tasks) : tasks[k].done /\ tasks[k].i >= tasks[k].hi

C2_Witness ==
    /\ pc = "returned"
    /\ OnParallelPath
    /\ Len(tasks) >= 2
    /\ \A k \in 1..Len(tasks) : tasks[k].done

\* The buffer the sequential loop leaves: its body for i = 0 .. N - 1 (and,
\* in BinaryXnorNode, for each output column), in order.
SequentialOutput(c) ==
    LET n == WorkSize(c)
        cols == IF c.kind = XnorKind THEN OutputColumns(c) ELSE 1
        empty == [ idx \in 0..(OutputSize(c) - 1) |-> Uninitialized(c) ]
        B[k \in 0..(n * cols)] ==
            IF k = 0
            THEN empty
            ELSE LET fr == [i |-> (k - 1) \div cols, j |-> (k - 1) % cols]
                 IN  ApplyStores(B[k - 1], LoopStores(c, fr, LoadValue(c, fr)))
    IN  B[n * cols]

\* C3: once the caller is past the node's code, the output buffer is the one
\* the sequential loop leaves, whichever path was compiled and however the
\* tasks interleaved, and the body of every index of [0, N) ran exactly once.
C3_ParallelEqualsSequential ==
    pc = "returned" =>
        /\ output = SequentialOutput(cfg)
        /\ \A i \in 0..(WorkSize(cfg) - 1) : runs[i] = 1

C3_Witness ==
    /\ pc = "returned"
    /\ OnParallelPath
    /\ Len(tasks) >= 2
    /\ \E idx \in DOMAIN output : output[idx].init
    /\ \E i \in DOMAIN output, j \in DOMAIN output : output[i] # output[j]

\* C4: tasks are dispatched exactly when parallelize is set and the task
\* count exceeds 1; otherwise the emitted code is one sequential loop over
\* [0, N) and no task is ever started.
C4_DispatchIffParallelAndSeveralTasks ==
    Compiled =>
        /\ (\E s \in 1..Len(program) : program[s].op = "StartTasks")
              <=> (cfg.parallelize /\ numTasks > 1)
        /\ ~(cfg.parallelize /\ numTasks > 1) =>
              /\ program = << Instruction("For", <<>>, WorkSize(cfg)) >>
              /\ tasks = <<>>
              /\ \A w \in writes : w[2] = 0

C4_Witness ==
    /\ pc = "returned"
    /\ cfg.parallelize
    /\ numTasks = 1
    /\ WorkSize(cfg) >= 2
    /\ program[1].op = "For"
    /\ \A i \in DOMAIN runs : runs[i] = 1

\* The output indices the claim gives to a task of range [lo, hi).
ClaimedOutputIndices(c, lo, hi) ==
    IF c.kind = ReceptiveFieldKind
    THEN { index * PackedRowSize(c) + b : index \in lo..(hi - 1), b \in 0..(PackedRowSize(c) - 1) }
    ELSE { filterIndex * OutputColumns(c) + column :
             filterIndex \in lo..(hi - 1), column \in 0..(OutputColumns(c) - 1) }

OutputIndicesWrittenBy(k) == { w[1][2] : w \in { x \in writes : x[1][1] = "output" /\ x[2] = k } }

\* C5: no location (output element or scratch variable) is written by two
\* tasks, and a task writes exactly the output elements of its own range.
C5_TasksWriteDisjointLocations ==
    /\ \A w1 \in writes, w2 \in writes : w1[1] = w2[1] => w1[2] = w2[2]
    /\ \A k \in 1..Len(tasks) :
          /\ OutputIndicesWrittenBy(k) \subseteq ClaimedOutputIndices(cfg, tasks[k].lo, tasks[k].hi)
          /\ tasks[k].done =>
                OutputIndicesWrittenBy(k) = ClaimedOutputIndices(cfg, tasks[k].lo, tasks[k].hi)
    /\ \A k1 \in 1..Len(tasks), k2 \in 1..Len(tasks) :
          k1 # k2 =>
            ClaimedOutputIndices(cfg, tasks[k1].lo, tasks[k1].hi)
              \cap ClaimedOutputIndices(cfg, tasks[k2].lo, tasks[k2].hi) = {}

C5_Witness ==
    /\ Len(tasks) >= 2
    /\ PackedRowSize(cfg) >= 2
    /\ \A k \in 1..Len(tasks) : tasks[k].done /\ OutputIndicesWrittenBy(k) # {}

(***************************************************************************)
(* Properties of the input ports.                                          *)
(***************************************************************************)
\* C6 (as claimed): an input port references output port o if and only if it
\* is in o's reference set, after any sequence of port operations.
C6_ReferencesMutuallyConsistent ==
    \A i \in InputPorts, o \in OutputPorts :
        (life[i] = "alive" /\ referencedPort[i] = o) <=> (i \in references[o])

\* C7 (as claimed): after SetReferencedPort(p) the input is in p's reference
\* set and no longer in that of the port q it was bound to; after the input
\* was unbound (SetReferencedPort(nullptr) or ClearReferencedPort) it is in no
\* output's reference set.
C7_BindingAddsUnbindingRemoves ==
    /\ (last.op = "SetReferencedPort" /\ last.arg # NullPort) =>
          /\ last.port \in references[last.arg]
          /\ (last.prevReferencedPort # NullPort /\ last.prevReferencedPort # last.arg) =>
                last.port \notin references[last.prevReferencedPort]
    /\ ((last.op = "SetReferencedPort" /\ last.arg = NullPort)
           \/ last.op = "ClearReferencedPort") =>
          \A o \in OutputPorts : last.port \notin references[o]

\* C8 (as claimed): SetReferencedPort to an output of another element type
\* ends in TypeMismatch and changes neither port; binding to an output of the
\* input's type succeeds and shows on both sides.
C8_MismatchedBindingRejected ==
    /\ (last.op = "SetReferencedPort" /\ last.arg # NullPort) =>
          IF OutputPortType(last.arg) # last.prevType
          THEN /\ last.outcome = "TypeMismatch"
               /\ referencedPort[last.port] = last.prevReferencedPort
               /\ references = last.prevReferences
          ELSE /\ last.outcome = "ok"
               /\ referencedPort[last.port] = last.arg
               /\ last.port \in references[last.arg]
    /\ (last.op = "InputPortBase" /\ last.arg # NullPort) =>
          /\ last.outcome = "ok"
          /\ portType[last.port] = OutputPortType(last.arg)
          /\ referencedPort[last.port] = last.arg
          /\ last.port \in references[last.arg]

\* C9 (as claimed): GetReferencedPort, GetInputElement, GetMemoryLayout and
\* Size on an unbound input port end in IllegalState and change nothing.
C9_UnboundQueriesRaiseIllegalState ==
    (last.op \in {"GetReferencedPort", "GetInputElement", "GetMemoryLayout", "Size"}
        /\ last.prevReferencedPort = NullPort) =>
        /\ last.outcome = "IllegalState"
        /\ ~crashed
        /\ referencedPort[last.port] = last.prevReferencedPort
        /\ references = last.prevReferences

(***************************************************************************)
(* Properties of TransformContext.                                         *)
(***************************************************************************)
\* C10: GetNodeAction returns the answer of the last registered function
\* that does not abstain on the node; when all abstain or none is registered
\* it returns compile for a compilable node and refine otherwise; it never
\* returns abstain.
C10_LastNonAbstainingWins ==
    lastAction.action # "none" =>
        LET n == lastAction.node
            asked == lastAction.functions
            deciding == { k \in 1..Len(asked) : asked[k][n] # "abstain" }
        IN  /\ lastAction.action # "abstain"
            /\ deciding # {} =>
                  \E k \in deciding :
                      /\ \A m \in deciding : m <= k
                      /\ lastAction.action = asked[k][n]
            /\ deciding = {} =>
                  lastAction.action = (IF n \in compilableNodes THEN "compile" ELSE "refine")

C10_Witness ==
    /\ lastAction.node = "n1"
    /\ Len(lastAction.functions) = 3
    /\ lastAction.functions[1]["n1"] = "compile"
    /\ lastAction.functions[2]["n1"] = "refine"
    /\ lastAction.functions[3]["n1"] = "abstain"
    /\ lastAction.action = "refine"

(***************************************************************************)
(* Properties of the IR-only nodes.                                        *)
(***************************************************************************)
\* C19: every call of Compute, WriteToArchive and ReadFromArchive of
\* BinaryReceptiveFieldMatrixNode and BinaryXnorNode ends in NotImplemented,
\* before and after the node is lowered, and leaves the node as it was.
C19_InterpretedAndArchiveNotImplemented ==
    /\ [](lastNodeCall.method # "none" => lastNodeCall.outcome = "NotImplemented")
    /\ [][lastNodeCall' # lastNodeCall => UNCHANGED <<cfg, pc, program>>]_vars

C19_Witness ==
    /\ lastNodeCall.method = "BinaryXnorNode::WriteToArchive"
    /\ pc = "emitted"

(***************************************************************************)
(* Properties of port serialization.                                       *)
(***************************************************************************)
\* C20 (as claimed): a port deserialized from the record of a serialized
\* port has the original's name and type, and its owning node is the node
\* of the enclosing model that carries the persisted node identifier.
C20_DeserializeRestoresPort ==
    (lastPortCall.op = "Deserialize" /\ lastPortCall.original.node # NoNode) =>
        /\ portObjects[lastPortCall.port].name = lastPortCall.original.name
        /\ portObjects[lastPortCall.port].type = lastPortCall.original.type
        /\ portObjects[lastPortCall.port].node = NodeWithId(lastPortCall.nodeId)

\* The passes RefineModel has begun.
PassesBegun == IF transformPhase = "idle" THEN 0 ELSE iteration + 1

\* C11: RefineModel always terminates.  It never begins more than
\* maxIterations passes, every pass it went on from had refined a node and
\* left a model that was not compilable, so it stops after the first pass
\* that refined nothing or left every node compilable, and every run
\* returns, also when a node rewrites itself in every pass.
C11_RefineModelTerminates ==
    /\ [](/\ PassesBegun <= maxIterations
          /\ Len(passLog) <= maxIterations
          /\ \A k \in 1..Len(passLog) :
                 (k < Len(passLog) \/ transformPhase = "refining")
                     => passLog[k].didRefineAny /\ ~passLog[k].isModelCompilable
          /\ (transformPhase = "returned" /\ Len(passLog) < maxIterations)
                 => \/ ~passLog[Len(passLog)].didRefineAny
                    \/ passLog[Len(passLog)].isModelCompilable)
    /\ <>(transformPhase = "returned")

\* RefineModel returned at the iteration cap from a model with a node that
\* rewrote itself in each of the passes.
C11_Witness ==
    /\ transformPhase = "returned"
    /\ \E k \in DOMAIN originalModel : originalModel[k].kind = "Restless"
    /\ maxIterations = MaxIterations
    /\ Len(passLog) = maxIterations
    /\ \A k \in DOMAIN passLog : passLog[k].didRefineAny

\* The nodes of the model that the context's compiler cannot compile.
UncompilableNodes(model) ==
    { k \in DOMAIN model : ~IsNodeCompilable(CompilableKinds, model[k].kind) }

\* Same node kinds in the same order with the same port connections.
SameGraph(a, b) ==
    /\ Len(a) = Len(b)
    /\ \A k \in DOMAIN a : a[k].kind = b[k].kind /\ a[k].inputs = b[k].inputs

\* RefineModel returned a model equal to the one it was given and no node
\* was rewritten on the way.
ReturnedUnchanged ==
    /\ \A k \in DOMAIN decisions : decisions[k].label # "refined"
    /\ Len(passLog) = 1
    /\ SameGraph(transformedModel, originalModel)

\* C13, as stated: for every model in which every node is compilable under
\* the context, RefineModel(CopyModel(M), ctx) performs zero rewrites and
\* returns a model with the nodes and connections of CopyModel(M).
C13_IdempotentOnCompilableModels ==
    (transformPhase = "returned" /\ UncompilableNodes(originalModel) = {})
        => ReturnedUnchanged

\* C13, amended: for every model in which every node is compilable and for
\* which the context answers compile for every node (no node action
\* function makes it refine one), RefineModel(CopyModel(M), ctx) performs
\* zero rewrites in its single pass and returns a model with the nodes and
\* connections of CopyModel(M).
C13_IdempotentWhenContextCompilesAll ==
    (/\ transformPhase = "returned"
     /\ UncompilableNodes(originalModel) = {}
     /\ \A k \in DOMAIN originalModel :
            GetNodeAction(transformFunctions, CompilableKinds, originalModel[k].kind) = "compile")
        => ReturnedUnchanged

\* A model of three compilable nodes, one of which could refine itself, was
\* returned by a context that carries node action functions but answers
\* compile for each of the nodes.
C13_Witness ==
    /\ transformPhase = "returned"
    /\ Len(originalModel) = 3
    /\ UncompilableNodes(originalModel) = {}
    /\ \E k \in DOMAIN originalModel : originalModel[k].kind = "Optimizable"
    /\ transformFunctions # <<>>
    /\ \A k \in DOMAIN originalModel :
           GetNodeAction(transformFunctions, CompilableKinds, originalModel[k].kind) = "compile"

\* The decisions taken in a pass on the node at a position of that pass's model.
DecisionsOn(pass, position) ==
    { k \in DOMAIN decisions : decisions[k].pass = pass /\ decisions[k].position = position }

\* C16: within one refinement pass every node of the model being refined
\* is processed exactly once and receives exactly one action, copied,
\* refined or compiled, never two of them; a node added by a refinement is
\* decided on only in a later pass than the one that added it.
C16_OneDecisionPerNodePerPass ==
    /\ \A k \in DOMAIN decisions :
           /\ decisions[k].label \in {"copied", "refined", "compiled"}
           /\ decisions[k].born < decisions[k].pass
           /\ decisions[k].pass <= PassesBegun
    /\ \A pass \in 1..Len(passLog) : \A position \in 1..passLog[pass].nodes :
           Cardinality(DecisionsOn(pass, position)) = 1
    /\ transformPhase = "refining" =>
           \A position \in DOMAIN currentModel :
               Cardinality(DecisionsOn(iteration + 1, position)) =
                   IF position < visitNext THEN 1 ELSE 0
    /\ Len(decisions) = Cardinality({ <<decisions[k].pass, decisions[k].position>> :
                                      k \in DOMAIN decisions })

\* A first pass refined a node, and the nodes that refinement added were
\* decided on, compiled, in the second pass.
C16_Witness ==
    /\ transformPhase = "returned"
    /\ \E k \in DOMAIN decisions : decisions[k].pass = 1 /\ decisions[k].label = "refined"
    /\ \E k \in DOMAIN decisions : decisions[k].pass = 1 /\ decisions[k].label = "copied"
    /\ \E k \in DOMAIN decisions :
           /\ decisions[k].pass = 2
           /\ decisions[k].born = 1
           /\ decisions[k].label = "compiled"
           /\ currentModel[decisions[k].position].kind = "BinaryXnorNode"

\* The output port a designated input of the submodel is bound to in the
\* source model.
BoundPortOf(j) == originalModel[submodel.inputs[j][1]].inputs[submodel.inputs[j][2]]

\* An in-place copy whose onto ports are the outputs the submodel's inputs
\* are already bound to.
GraftOntoOwnLocation ==
    /\ isInPlace
    /\ Len(onto) = Len(submodel.inputs)
    /\ \A j \in DOMAIN onto : onto[j] = BoundPortOf(j)

\* The input ports the copy of a submodel node gets, by the finished map.
InputsOfCopy(position) ==
    CorrespondingSubmodelInputs(elementsMap, submodel, onto, originalModel[position], position)

\* C14: copy elision.  An in-place CopySubmodelOnto whose onto ports are
\* the outputs the submodel's inputs are already bound to adds no node,
\* leaves every node and port as it was, and maps every output port of the
\* submodel to itself.  In any in-place copy a node whose copy would have
\* the inputs the node has is not duplicated, and no node is copied more
\* than once, however many branches reach it.
C14_CopyElision ==
    transformPhase = "copied" =>
        /\ GraftOntoOwnLocation =>
               /\ transformedModel = originalModel
               /\ currentModel = originalModel
               /\ \A n \in SubmodelNodes(originalModel, submodel) :
                      GetCorrespondingOutputs(elementsMap, n) = n
        /\ isInPlace =>
               /\ \A n \in SubmodelNodes(originalModel, submodel) :
                      InputsOfCopy(n) = originalModel[n].inputs
                          => GetCorrespondingOutputs(elementsMap, n) = n
               /\ SubSeq(transformedModel, 1, Len(originalModel)) = originalModel
               /\ Len(transformedModel) - Len(originalModel) =
                      Cardinality({ n \in SubmodelNodes(originalModel, submodel) :
                                      InputsOfCopy(n) # originalModel[n].inputs })
        /\ \A n \in DOMAIN originalModel : Cardinality(DecisionsOn(1, n)) <= 1

\* The documentation's model, grafted in place onto the output its
\* designated input is bound to: the constant, the sum and C were visited
\* and elided.
C14_Witness ==
    /\ transformPhase = "copied"
    /\ originalModel = BranchingModel
    /\ GraftOntoOwnLocation
    /\ submodel.inputs = <<InputPortOf(5, 1)>>
    /\ submodel.outputs = <<6>>
    /\ \A k \in DOMAIN decisions : decisions[k].label = "elided"
    /\ Len(decisions) = 3

ChainSuffixCopy ==
    /\ originalModel = ChainABC
    /\ submodel = [inputs |-> <<InputPortOf(2, 1)>>, outputs |-> <<3>>]
    /\ ~isInPlace

\* That copy onto a fresh model with an empty onto list.
ChainSuffixOntoFreshModel ==
    /\ ChainSuffixCopy
    /\ destModel = <<>>
    /\ onto = <<>>

\* CopySubmodelOnto has ended, by returning or by an error.
CopySubmodelOntoEnded == transformPhase \in {"copied", "threw"}

C18_GraphStaysAcyclic ==
    \A n \in DOMAIN graph.inputs : ~DependsOnItself(graph, n)

(***************************************************************************)
(* CeilDiv and the task geometry derived from it.                          *)
(***************************************************************************)
\* C23 (as claimed): CeilDiv is the ceiling of a / b for a >= 0, b >= 1, and
\* for every N >= 0 and D >= 1 Compile ends without a division by zero with
\* taskSize = ceil(N / D) and numTasks = ceil(N / taskSize).
C23_CeilDivIsCeiling ==
    pc # "init" =>
        /\ pc # "trapped"
        /\ CeilDiv(WorkSize(cfg), cfg.maxThreads) = MathCeil(WorkSize(cfg), cfg.maxThreads)
        /\ taskSize = MathCeil(WorkSize(cfg), cfg.maxThreads)
        /\ taskSize >= 1 => numTasks = MathCeil(WorkSize(cfg), taskSize)

\* C24: for N >= 1 and D >= 1 at most D tasks are dispatched, every
\* dispatched task has a non-empty range inside [0, N) (start < end <= N),
\* and every task but the last has exactly taskSize indices.
C24_TasksNonEmptyAndAtMostDesired ==
    (OnParallelPath /\ WorkSize(cfg) >= 1 /\ cfg.maxThreads >= 1) =>
        LET args == program[1].args
        IN  /\ Len(args) <= cfg.maxThreads
            /\ Len(tasks) <= cfg.maxThreads
            /\ \A k \in 1..Len(args) :
                  /\ 0 <= args[k][1]
                  /\ args[k][1] < args[k][2]
                  /\ args[k][2] <= WorkSize(cfg)
                  /\ k < Len(args) => args[k][2] - args[k][1] = taskSize
            /\ \A k \in 1..Len(tasks) :
                  /\ tasks[k].lo = args[k][1]
                  /\ tasks[k].hi = args[k][2]

C24_Witness ==
    /\ OnParallelPath
    /\ Len(tasks) >= 2
    /\ tasks[Len(tasks)].hi - tasks[Len(tasks)].lo < taskSize
    /\ \A k \in 1..Len(tasks) : tasks[k].done

\* C27: every store BinaryReceptiveFieldMatrixNode's code makes to its
\* output, in the task function or in the sequential loop, is to an index
\* outputRowIndex * packedRowSize + blockIndex with blockIndex < packedRowSize
\* and outputRowIndex < numOutputRows, below the size GetPackedFilterSize
\* gave the output port.
C27_ReceptiveFieldWritesInsideOutput ==
    cfg.kind = ReceptiveFieldKind =>
        \A w \in writes :
            w[1][1] = "output" =>
                /\ 0 <= w[1][2]
                /\ w[1][2] < GetPackedFilterSize(cfg)
                /\ \E outputRowIndex \in 0..(NumOutputRows(cfg) - 1),
                      blockIndex \in 0..(PackedRowSize(cfg) - 1) :
                        w[1][2] = outputRowIndex * PackedRowSize(cfg) + blockIndex

C27_Witness ==
    /\ cfg.kind = ReceptiveFieldKind
    /\ pc = "returned"
    /\ cfg.bits = 32
    /\ FieldVolumeSize(cfg) % cfg.bits # 0
    /\ PackedRowSize(cfg) >= 2
    /\ \E w \in writes : w[1] = <<"output", GetPackedFilterSize(cfg) - 1>> /\ w[2] >= 2

(***************************************************************************)
(* Destruction of input ports.                                             *)
(***************************************************************************)
\* C25 (as claimed): once an input port has been destroyed, no output port's
\* reference set contains it, whatever calls preceded its destruction.
C25_DestroyedPortInNoReferenceSet ==
    \A i \in InputPorts :
        life[i] = "destroyed" => \A o \in OutputPorts : i \notin references[o]

(***************************************************************************)
(* The transformer's model-compilable flag.                                *)
(***************************************************************************)
\* C26: during a pass the flag is the conjunction of the compilability of
\* every node added to the transformed model so far; within a pass it never
\* goes back from false to true; and it is true when the pass ends only if
\* every node of the model the pass built is compilable.
C26_FlagIsConjunctionOverAddedNodes ==
    /\ [](transformPhase \in {"refining", "returned", "threw"} =>
            (isModelCompilable <=>
                \A k \in DOMAIN transformedModel :
                    IsNodeCompilable(CompilableKinds, transformedModel[k].kind)))
    /\ [][(transformPhase = "refining" /\ iteration' = iteration /\ ~isModelCompilable)
             => ~isModelCompilable']_vars

C26_Witness ==
    /\ transformPhase = "returned"
    /\ ~isModelCompilable
    /\ Len(transformedModel) >= 2
    /\ IsNodeCompilable(CompilableKinds, transformedModel[Len(transformedModel)].kind)
    /\ \E k \in DOMAIN transformedModel :
          ~IsNodeCompilable(CompilableKinds, transformedModel[k].kind)

(***************************************************************************)
(* Properties of BinaryXnorNode's row computation.                         *)
(***************************************************************************)
\* How many iterations of the two inner loops read block b.
TimesProcessed(c, b) ==
    Cardinality({ i \in DOMAIN VectorLoop(c) : b \in VectorLoop(c)[i] })
      + Cardinality({ i \in DOMAIN ScalarLoop(c) : b \in ScalarLoop(c)[i] })

BlocksOf(loopBlocks) == UNION { loopBlocks[i] : i \in DOMAIN loopBlocks }

\* The popcount of the (masked) XOR of the whole row, every block once.
RowPopCount(c, filterIndex, outputColumnIndex) ==
    LET blockCount == [ b \in 0..(PackedRowSize(c) - 1) |->
                          XorCount(c, outputColumnIndex * PackedRowSize(c) + b,
                                   filterIndex * PackedRowStride(c) + b,
                                   outputColumnIndex * PackedRowStride(c) + b) ]
    IN  SumOver(blockCount, 0, PackedRowSize(c))

\* C21: when vector instructions are allowed and packedRowSize >= V the
\* vector loop covers the aligned prefix of floor(packedRowSize / V) * V
\* blocks and the scalar loop the remainder, otherwise the scalar loop covers
\* the row; in every case each block of [0, packedRowSize) is read by exactly
\* one iteration, at least one loop is emitted, and the xor sum the body
\* leaves is the popcount of the whole row.
C21_VectorAndScalarLoopsCoverRowOnce ==
    (cfg.kind = XnorKind /\ Compiled) =>
        LET prs == PackedRowSize(cfg)
            V == cfg.vectorWidth
            prefix == (prs \div V) * V
        IN  /\ IF cfg.allowVectorInstructions /\ prs >= V
               THEN /\ BlocksOf(VectorLoop(cfg)) = 0..(prefix - 1)
                    /\ BlocksOf(ScalarLoop(cfg)) = prefix..(prs - 1)
               ELSE /\ VectorLoop(cfg) = << >>
                    /\ BlocksOf(ScalarLoop(cfg)) = 0..(prs - 1)
            /\ \A b \in 0..(prs - 1) : TimesProcessed(cfg, b) = 1
            /\ BlocksOf(VectorLoop(cfg)) \cup BlocksOf(ScalarLoop(cfg)) = 0..(prs - 1)
            /\ VectorLoop(cfg) # << >> \/ ScalarLoop(cfg) # << >>
            /\ (loop.phase = "store" /\ loop.i < loop.hi) =>
                  scratch[0] = RowPopCount(cfg, loop.i, loop.j)

C21_Witness ==
    /\ cfg.kind = XnorKind
    /\ cfg.allowVectorInstructions
    /\ cfg.vectorWidth = 2
    /\ PackedRowSize(cfg) = 5
    /\ VectorLoop(cfg) # << >>
    /\ ScalarLoop(cfg) # << >>
    /\ loop.phase = "store"
    /\ loop.i < loop.hi
    /\ scratch[0] > 0

\* C28: in BinaryXnorNode the packed row size, ceil(fieldVolumeSize /
\* wordBits), never exceeds the packed row stride, ceil(fieldVolumeSize / 64)
\* * (8 / wordBytes), for every field volume >= 1 and both word widths.
C28_RowSizeAtMostRowStride ==
    (cfg.kind = XnorKind /\ Compiled) =>
        /\ PackedRowSize(cfg) = MathCeil(FieldVolumeSize(cfg), cfg.bits)
        /\ PackedRowStride(cfg) = MathCeil(FieldVolumeSize(cfg), 64) * (8 \div (cfg.bits \div 8))
        /\ PackedRowSize(cfg) <= PackedRowStride(cfg)
        /\ \A b \in BlocksOf(VectorLoop(cfg)) \cup BlocksOf(ScalarLoop(cfg)) :
              b < PackedRowStride(cfg)

C28_Witness ==
    /\ cfg.kind = XnorKind
    /\ pc = "returned"
    /\ cfg.bits = 32
    /\ PackedRowSize(cfg) = 3
    /\ PackedRowStride(cfg) = 4
    /\ \E idx \in DOMAIN output : output[idx].init

\* C29: the value BinaryXnorNode stores, before its scaling by the filter
\* mean, is fieldVolumeSize - 2 * popcount - paddingSum, the padding sum
\* subtracted only with zero padding: numBits * packedRowSize less the
\* partial-block adjustment is exactly fieldVolumeSize.
C29_OutputIsVolumeMinusTwicePopCount ==
    (cfg.kind = XnorKind /\ Compiled) =>
        LET numBits == cfg.bits
            partialBlockSize == FieldVolumeSize(cfg) % numBits
            filterAdjust == IF partialBlockSize # 0 THEN numBits - partialBlockSize ELSE 0
        IN  /\ numBits * PackedRowSize(cfg) - filterAdjust = FieldVolumeSize(cfg)
            /\ \A filterIndex \in 0..(cfg.numFilters - 1),
                  outputColumnIndex \in 0..(OutputColumns(cfg) - 1) :
                  LET outIndex == filterIndex * OutputColumns(cfg) + outputColumnIndex
                      paddingSum == IF cfg.hasZeroPadding
                                    THEN PaddingMaskSum(cfg, outputColumnIndex)
                                    ELSE 0
                      unscaled == FieldVolumeSize(cfg)
                                    - 2 * RowPopCount(cfg, filterIndex, outputColumnIndex)
                                    - paddingSum
                  IN  output[outIndex].init =>
                        output[outIndex].val =
                            IF cfg.scaleByFilterMeans
                            THEN unscaled * FilterMean(cfg, filterIndex)
                            ELSE unscaled

C29_Witness ==
    /\ cfg.kind = XnorKind
    /\ pc = "returned"
    /\ cfg.hasZeroPadding
    /\ ~cfg.scaleByFilterMeans
    /\ FieldVolumeSize(cfg) % cfg.bits # 0
    /\ PackedRowSize(cfg) >= 2
    /\ RowPopCount(cfg, 0, 0) > 0
    /\ output[0].init

(***************************************************************************)
(* Properties of the module header.                                        *)
(***************************************************************************)
\* The reserved prefixes the claim names.
ReservedPrefixes ==
    { <<"_", "N", "o", "d", "e", "_", "_">>,
      <<"l", "l", "v", "m", ".">>,
      <<"c", "l", "o", "c", "k", "_", "g", "e", "t", "t", "i", "m", "e">>,
      <<"c", "b", "l", "a", "s">>,
      <<"p", "r", "i", "n", "t", "f">>,
      <<"_">> }

BeginsWith(str, prefix) ==
    /\ Len(prefix) <= Len(str)
    /\ \A i \in 1..Len(prefix) : str[i] = prefix[i]

\* C22: a function of the module is declared in the header if and only if
\* it has a name and the name begins with none of the reserved prefixes;
\* the declarations are in module order, one for each such function.
C22_HeaderDeclaresUnreservedNamedFunctions ==
    headerPhase \in {"functions", "written"} =>
        /\ \A k \in 1..(nextFunction - 1) :
              LET f == moduleFunctions[k]
                  declarations == { d \in DOMAIN headerFunctions :
                                      headerFunctions[d].position = k }
              IN  /\ (declarations # {}) <=>
                        (f.hasName /\ \A p \in ReservedPrefixes : ~BeginsWith(f.name, p))
                  /\ Cardinality(declarations) <= 1
                  /\ \A d \in declarations : headerFunctions[d].name = f.name
        /\ \A d \in DOMAIN headerFunctions : headerFunctions[d].position < nextFunction
        /\ \A d1 \in DOMAIN headerFunctions, d2 \in DOMAIN headerFunctions :
              d1 < d2 => headerFunctions[d1].position < headerFunctions[d2].position
        /\ headerPhase = "written" => nextFunction = Len(moduleFunctions) + 1

C22_Witness ==
    /\ headerPhase = "written"
    /\ Len(moduleFunctions) = 3
    /\ moduleFunctions[1].name = <<"l", "l", "v", "m", ".", "x">>
    /\ moduleFunctions[2].name = <<"f", "_">>
    /\ moduleFunctions[3].name = <<"l", "l", "v", "m">>
    /\ Len(headerFunctions) = 2

(***************************************************************************)
(* Properties of HuberLoss.                                                *)
(***************************************************************************)
\* The derivative of the objective at x in [-1, 1]:
\* theta * (output + gamma * x) + (x - z).
ObjectiveSlope(args, x) ==
    RAdd(RMul(args.theta, RAdd(args.output, RMul(args.gamma, x))), RSub(x, args.z))

\* C30: for theta >= 0, gamma > 0 and any z and output, ConjugateProx returns
\* a point b of [-1, 1] at which theta * Conjugate(b, output) + (b - z)^2 / 2
\* is least over [-1, 1]: at no compared point of [-1, 1] is the search's
\* objective (the value there less the value at b) negative, and b meets the optimality condition of the convex objective (slope 0
\* inside, slope <= 0 at 1, slope >= 0 at -1).
C30_ConjugateProxMinimisesObjective ==
    lossPhase \in {"called", "compared"} =>
        /\ RLeq(MinusOne, conjugateProx) /\ RLeq(conjugateProx, One)
        /\ conjugateProxValue.kind = "finite"
        /\ LET slope == ObjectiveSlope(lossArgs, conjugateProx)
           IN  /\ conjugateProx # One => RLeq(Rat(0, 1), slope)
               /\ conjugateProx # MinusOne => RLeq(slope, Rat(0, 1))
        /\ (lossPhase = "compared"
              /\ RLeq(MinusOne, comparison.x) /\ RLeq(comparison.x, One)) =>
              RLeq(Rat(0, 1), comparison.value)

C30_Witness ==
    /\ lossPhase = "compared"
    /\ lossArgs.theta.num > 0
    /\ conjugateProx \notin {MinusOne, One, Rat(0, 1)}
    /\ comparison.x # conjugateProx
    /\ RLeq(MinusOne, comparison.x) /\ RLeq(comparison.x, One)
    /\ comparison.value # Rat(0, 1)
    /\ RLeq(comparison.value, Rat(1, 1))

=============================================================================
